---- MODULE Spec2Model ----
(***************************************************************************)
(* Streaming frequency / RoCoF estimators: the zero-crossing core          *)
(* (estimators/basic/zcd/core.py), the single-phase estimator (single.py), *)
(* the multi-phase aggregator (multi.py), the distributed engine           *)
(* (distributed.py) and the interpolated-DFT estimator (ipdft.py).         *)
(*                                                                         *)
(* Numbers.  Python floats are modelled by exact rationals <<n, d>> with   *)
(* d > 0 in lowest terms; None is the pair <<0, 0>>.  Sample values are    *)
(* small integers, sample timestamps whole or half seconds; interpolated   *)
(* crossing times, periods, frequencies and RoCoFs are the rationals the   *)
(* code computes from them.  Rounding of IEEE arithmetic is not modelled.  *)
(***************************************************************************)
EXTENDS Integers, Sequences, FiniteSets, TLC

(* ------------------------------ bounds -------------------------------- *)

\* sample timestamps are drawn from 0..MaxTs
MaxTs == 4
Times == 0 .. MaxTs
\* timestamps of the runs in which they repeat and go back are drawn from 0..MaxAnyTs
MaxAnyTs == 1
AnyTimes == 0 .. MaxAnyTs
\* sample values
Vals == {0 - 2, 0 - 1, 0, 1, 2}

(* ----------------------------- rationals ------------------------------ *)

None == <<0, 0>>
IsNone(x) == x[2] = 0
Present(x) == x[2] # 0

Abs(n) == IF n < 0 THEN 0 - n ELSE n

RECURSIVE GCD(_, _)
GCD(a, b) == IF b = 0 THEN a ELSE GCD(b, a % b)

\* n/d in lowest terms with a positive denominator (d # 0)
Norm(n, d) ==
    LET g == GCD(Abs(n), Abs(d))
        s == IF d < 0 THEN 0 - 1 ELSE 1
    IN  <<(s * n) \div g, (s * d) \div g>>

R(n) == <<n, 1>>
RAdd(a, b) == Norm(a[1] * b[2] + b[1] * a[2], a[2] * b[2])
RSub(a, b) == Norm(a[1] * b[2] - b[1] * a[2], a[2] * b[2])
RMul(a, b) == Norm(a[1] * b[1], a[2] * b[2])
\* a / b; no value (None) when b = 0, where Python raises ZeroDivisionError
RDiv(a, b) == IF b[1] = 0 THEN None ELSE Norm(a[1] * b[2], a[2] * b[1])
RLt(a, b) == a[1] * b[2] < b[1] * a[2]
RLe(a, b) == a[1] * b[2] <= b[1] * a[2]
RNeg(a) == <<0 - a[1], a[2]>>
RZero == R(0)

(* ------------------- zero-crossing core: core.py ---------------------- *)

CrossingModes == {"neg_to_pos", "pos_to_neg", "either"}

\* ZCDState(): every field absent
ZCDState ==
    [prev_val |-> None, prev_ts |-> None, last_cross_ts |-> None,
     prev_cross_ts |-> None, last_freq |-> None, prev_freq |-> None]

\* ZCDConfig defaults
DefaultEpsilon == RZero
DefaultNominalHz == R(60)
DefaultMode == "neg_to_pos"
DefaultMinPeriod == <<1, 1000000>>
DefaultMaxPeriod == R(1)

ZCDConfig(eps, nominal, mode) ==
    [epsilon |-> eps, nominal_hz |-> nominal, mode |-> mode,
     min_period_s |-> DefaultMinPeriod, max_period_s |-> DefaultMaxPeriod]

\* a classification without the deadband, for comparison
SignNoDeadband(x, eps) ==
    IF RLt(RZero, x) THEN 1
    ELSE IF RLt(x, RZero) THEN 0 - 1
    ELSE 0

\* signed region with deadband
Sign(x, eps) ==
    IF RLt(eps, x) THEN 1
    ELSE IF RLt(x, RNeg(eps)) THEN 0 - 1
    ELSE 0

\* a detector that wants the second sample strictly beyond zero, for comparison
CrossedStrict(s0, s1, mode) ==
    IF mode = "neg_to_pos" THEN (s0 = 0 - 1) /\ (s1 > 0)
    ELSE IF mode = "pos_to_neg" THEN (s0 = 1) /\ (s1 < 0)
    ELSE (s0 # 0) /\ (s1 \notin {0, s0})

Crossed(s0, s1, mode) ==
    IF mode = "neg_to_pos" THEN (s0 = 0 - 1) /\ (s1 >= 0)
    ELSE IF mode = "pos_to_neg" THEN (s0 = 1) /\ (s1 <= 0)
    ELSE (s0 # 0) /\ (s1 \notin {0, s0})

\* (crossed, t_cross)
detect_crossing(prev_val, prev_ts, curr_val, curr_ts, eps, mode) ==
    LET s0 == Sign(prev_val, eps)
        s1 == Sign(curr_val, eps)
        dx == RSub(curr_val, prev_val)
    IN  IF ~Crossed(s0, s1, mode)
        THEN [crossed |-> FALSE, t_cross |-> None]
        ELSE IF dx = RZero
        THEN [crossed |-> TRUE, t_cross |-> curr_ts]
        ELSE [crossed |-> TRUE,
              t_cross |-> RAdd(prev_ts,
                               RMul(RSub(curr_ts, prev_ts),
                                    RDiv(RNeg(prev_val), dx)))]

\* frequency: last known or nominal
FreqOutZeroUntilLocked(st, cfg) ==
    IF Present(st.last_freq) THEN st.last_freq ELSE RZero

FreqOut(st, cfg) == IF Present(st.last_freq) THEN st.last_freq ELSE cfg.nominal_hz

\* rocof via consecutive crossing-based freqs
RocofOut(st) ==
    IF Present(st.last_freq) /\ Present(st.prev_freq)
       /\ Present(st.last_cross_ts) /\ Present(st.prev_cross_ts)
       /\ RLt(RZero, RSub(st.last_cross_ts, st.prev_cross_ts))
    THEN RDiv(RSub(st.last_freq, st.prev_freq),
              RSub(st.last_cross_ts, st.prev_cross_ts))
    ELSE RZero

\* variants of the crossing branch, for comparison: one takes a rejected
\* crossing as the new reference, one records a frequency without moving
\* prev_cross_ts
CrossingUpdateResync(st, cfg, det) ==
    IF ~det.crossed THEN st
    ELSE IF Present(st.last_cross_ts) /\ Present(det.t_cross)
    THEN LET period == RSub(det.t_cross, st.last_cross_ts)
         IN  IF RLe(cfg.min_period_s, period) /\ RLe(period, cfg.max_period_s)
             THEN [st EXCEPT !.prev_freq = st.last_freq,
                             !.last_freq = RDiv(R(1), period),
                             !.prev_cross_ts = st.last_cross_ts,
                             !.last_cross_ts = det.t_cross]
             ELSE [st EXCEPT !.last_cross_ts = det.t_cross]
    ELSE [st EXCEPT !.last_cross_ts = det.t_cross]

CrossingUpdateUnpaired(st, cfg, det) ==
    IF ~det.crossed THEN st
    ELSE IF Present(st.last_cross_ts) /\ Present(det.t_cross)
    THEN LET period == RSub(det.t_cross, st.last_cross_ts)
         IN  IF RLe(cfg.min_period_s, period) /\ RLe(period, cfg.max_period_s)
             THEN [st EXCEPT !.prev_freq = st.last_freq,
                             !.last_freq = RDiv(R(1), period),
                             !.last_cross_ts = det.t_cross]
             ELSE st
    ELSE [st EXCEPT !.last_cross_ts = det.t_cross]

\* the crossing bookkeeping of update_scalar (lines 141-157): the state after it
\* a crossing branch that never moves last_freq into prev_freq, for comparison
CrossingUpdateKeepsPrevFreq(st, cfg, det) ==
    IF ~det.crossed THEN st
    ELSE IF Present(st.last_cross_ts) /\ Present(det.t_cross)
    THEN LET period == RSub(det.t_cross, st.last_cross_ts)
         IN  IF RLe(cfg.min_period_s, period) /\ RLe(period, cfg.max_period_s)
             THEN [st EXCEPT !.last_freq = RDiv(R(1), period),
                             !.prev_cross_ts = st.last_cross_ts,
                             !.last_cross_ts = det.t_cross]
             ELSE st
    ELSE [st EXCEPT !.last_cross_ts = det.t_cross]

CrossingUpdate(st, cfg, det) ==
    IF ~det.crossed THEN st
    ELSE IF Present(st.last_cross_ts) /\ Present(det.t_cross)
    THEN LET period == RSub(det.t_cross, st.last_cross_ts)
         IN  IF RLe(cfg.min_period_s, period) /\ RLe(period, cfg.max_period_s)
             THEN [st EXCEPT !.prev_freq = st.last_freq,
                             !.last_freq = RDiv(R(1), period),
                             !.prev_cross_ts = st.last_cross_ts,
                             !.last_cross_ts = det.t_cross]
             ELSE st
    ELSE [st EXCEPT !.last_cross_ts = det.t_cross]

\* a core that divides by the period before filtering it, for comparison
DividesBeforeFilter(st, cfg, det) ==
    /\ det.crossed
    /\ Present(st.last_cross_ts)
    /\ Present(det.t_cross)
    /\ RSub(det.t_cross, st.last_cross_ts) = RZero

\* 1.0 / period with period = 0 raises ZeroDivisionError before any field is written
DividesByZero(st, cfg, det) ==
    /\ det.crossed
    /\ Present(st.last_cross_ts)
    /\ Present(det.t_cross)
    /\ LET period == RSub(det.t_cross, st.last_cross_ts)
       IN  /\ period = RZero
           /\ RLe(cfg.min_period_s, period)
           /\ RLe(period, cfg.max_period_s)

NoDetect == [crossed |-> FALSE, t_cross |-> None]

\* update_scalar(value, ts): the new state and what the call returns
update_scalar(st, cfg, value, ts) ==
    LET det == IF Present(st.prev_val) /\ Present(st.prev_ts)
               THEN detect_crossing(st.prev_val, st.prev_ts, value, ts,
                                    cfg.epsilon, cfg.mode)
               ELSE NoDetect
    IN  IF DividesByZero(st, cfg, det)
        THEN [st |-> st, err |-> "ZeroDivisionError", freq_hz |-> None,
              rocof_hz_s |-> None, crossed |-> FALSE, t_cross |-> None]
        ELSE LET s1 == CrossingUpdate(st, cfg, det)
                 s2 == [s1 EXCEPT !.prev_val = value, !.prev_ts = ts]
             IN  [st |-> s2, err |-> "none", freq_hz |-> FreqOut(s2, cfg),
                  rocof_hz_s |-> RocofOut(s2), crossed |-> det.crossed,
                  t_cross |-> det.t_cross]

(* ------------------- configuration access (dict) ---------------------- *)

\* config.get(key, default)
Get(cfg, key, default) == IF key \in DOMAIN cfg THEN cfg[key] ELSE default

(* ------------------ single-phase estimator: single.py ----------------- *)

\* the memory ZeroCrossing.__init__ creates
SingleMemory ==
    [prev_val |-> None, prev_ts |-> None, last_cross_ts |-> None,
     prev_cross_ts |-> None, last_freq |-> None, prev_freq |-> None]

\* EstimatorBase.__init__ and memory.clear(): the empty dict
EmptyMemory == [k \in {} |-> None]

SingleKeys == {"prev_val", "prev_ts", "last_cross_ts", "prev_cross_ts",
               "last_freq", "prev_freq"}

Raise(mem, e) ==
    [mem |-> mem, err |-> e, frequency_hz |-> None, rocof_hz_s |-> None,
     timestamp_utc |-> None]

\* the crossing branch of ZeroCrossing.update (lines 66-94): the memory after it
SingleCrossing(mem, eps, x, ts) ==
    IF ~(Present(mem.prev_val) /\ Present(mem.prev_ts)) THEN mem
    ELSE IF ~(RLt(mem.prev_val, RNeg(eps)) /\ RLe(eps, x)) THEN mem
    ELSE LET dx == RSub(x, mem.prev_val)
             t_cross == IF dx # RZero
                        THEN RAdd(mem.prev_ts,
                                  RMul(RSub(ts, mem.prev_ts),
                                       RDiv(RNeg(mem.prev_val), dx)))
                        ELSE ts
         IN  IF Present(mem.last_cross_ts)
             THEN LET period == RSub(t_cross, mem.last_cross_ts)
                  IN  IF RLt(RZero, period)
                      THEN [mem EXCEPT !.prev_freq = mem.last_freq,
                                       !.last_freq = RDiv(R(1), period),
                                       !.prev_cross_ts = mem.last_cross_ts,
                                       !.last_cross_ts = t_cross]
                      ELSE mem
             ELSE [mem EXCEPT !.last_cross_ts = t_cross]

\* the channels / nodes of a snapshot whose value float() rejects (None, a
\* list, ...): the snapshot's field "bad", empty when it has none
NotNumeric(snap) == Get(snap, "bad", {})

\* the placeholder phasors built from V1 .. I3 after the state was written:
\* complex(None, 0.0) and float(None) raise TypeError
PhasorNames == {"V1", "V2", "V3", "I1", "I2", "I3"}

PhasorsRaise(snap) == NotNumeric(snap) \cap PhasorNames # {}

\* what the call gives when the phasors are built from its result r
WithPhasors(r, snap) ==
    IF r.err = "none" /\ PhasorsRaise(snap)
    THEN [r EXCEPT !.err = "TypeError", !.frequency_hz = None,
                   !.rocof_hz_s = None, !.timestamp_utc = None]
    ELSE r

\* ZeroCrossing.update(measures): the new memory and the PMU_Output (or the error)
single_update(mem, cfg, snap) ==
    LET chan == Get(cfg, "channel", "V1")
        eps == Get(cfg, "epsilon", RZero)
        nominal_hz == Get(cfg, "nominal_hz", R(60))
    IN  IF chan \notin DOMAIN snap THEN Raise(mem, "AttributeError")
        ELSE IF chan \in NotNumeric(snap) THEN Raise(mem, "TypeError")
        ELSE IF ~({"prev_val", "prev_ts"} \subseteq DOMAIN mem)
        THEN Raise(mem, "KeyError")
        ELSE LET x == R(snap[chan])
                 ts == snap.timestamp
                 m1 == SingleCrossing(mem, eps, x, ts)
                 m2 == [m1 EXCEPT !.prev_val = x, !.prev_ts = ts]
             IN  WithPhasors(
                 [mem |-> m2, err |-> "none",
                  frequency_hz |-> IF Present(m2.last_freq) THEN m2.last_freq
                                   ELSE nominal_hz,
                  rocof_hz_s |->
                      IF Present(m2.last_freq) /\ Present(m2.prev_freq)
                         /\ Present(m2.last_cross_ts) /\ Present(m2.prev_cross_ts)
                         /\ RLt(RZero, RSub(m2.last_cross_ts, m2.prev_cross_ts))
                      THEN RDiv(RSub(m2.last_freq, m2.prev_freq),
                                RSub(m2.last_cross_ts, m2.prev_cross_ts))
                      ELSE RZero,
                  timestamp_utc |-> ts], snap)

(* --------------------- interpolated DFT: ipdft.py --------------------- *)

\* frame lengths the model constructs an IpDFT with (2 is rejected); a long
\* frame has 6 samples.  For these lengths 4 * |X[k]|^2 is an integer for the
\* bins 0 .. frame_len \div 2 - 1.
FrameLens == {2, 3, 4}

RECURSIVE SumTo(_, _)
SumTo(buf, n) == IF n = 0 THEN 0 ELSE buf[n] + SumTo(buf, n - 1)

\* 4 * |X[k]|^2 of np.fft.fft(buffer, n = frame_len), for the bins below
\* frame_len // 2 of a 3-, 4- or 6-sample frame (buf is 1-based: buf[i + 1] is
\* buffer[i]).  For 6 samples 2 * X[k] = re - i * sqrt(3) * im with integers
\* re, im.
MagSq(buf, k) ==
    IF k = 0 THEN 4 * SumTo(buf, Len(buf)) * SumTo(buf, Len(buf))
    ELSE IF Len(buf) = 4
    THEN 4 * ((buf[1] - buf[3]) * (buf[1] - buf[3])
              + (buf[2] - buf[4]) * (buf[2] - buf[4]))
    ELSE LET re == IF k = 1
                   THEN 2 * buf[1] + buf[2] - buf[3] - 2 * buf[4] - buf[5] + buf[6]
                   ELSE 2 * buf[1] - buf[2] - buf[3] + 2 * buf[4] - buf[5] - buf[6]
             im == IF k = 1
                   THEN buf[2] + buf[3] - buf[5] - buf[6]
                   ELSE buf[2] - buf[3] + buf[5] - buf[6]
         IN  re * re + 3 * im * im

\* np.argmax over mag[0 .. half-1]: the first index holding the maximum
ArgMax(buf, half) ==
    CHOOSE k \in 0 .. half - 1 :
        /\ \A j \in 0 .. half - 1 : MagSq(buf, j) <= MagSq(buf, k)
        /\ \A j \in 0 .. k - 1 : MagSq(buf, j) < MagSq(buf, k)

\* a refinement without the factor 0.5, for comparison
ParabolicDeltaUnhalved(m0, m1, m2) ==
    LET denom == RAdd(RSub(m0, RMul(R(2), m1)), m2)
    IN  IF denom # RZero THEN RDiv(RSub(m0, m2), denom) ELSE RZero

\* the parabolic refinement from three neighbouring magnitudes
ParabolicDelta(m0, m1, m2) ==
    LET denom == RAdd(RSub(m0, RMul(R(2), m1)), m2)
    IN  IF denom # RZero
        THEN RDiv(RMul(<<1, 2>>, RSub(m0, m2)), denom)
        ELSE RZero

\* the largest r in lo .. hi with r * r <= n (lo * lo <= n < (hi + 1) * (hi + 1))
RECURSIVE ISqrt(_, _, _)
ISqrt(n, lo, hi) ==
    IF lo = hi THEN lo
    ELSE LET mid == (lo + hi + 1) \div 2
         IN  IF mid * mid <= n THEN ISqrt(n, mid, hi) ELSE ISqrt(n, lo, mid - 1)

\* np.abs(X[k]) = sqrt(MagSq) / 2, to three decimals
Mag(buf, k) == Norm(ISqrt(MagSq(buf, k) * 1000000, 0, 40000), 2000)

\* IpDFT._estimate_freq (None when a division by zero is performed)
estimate_freq(e) ==
    LET half == e.frame_len \div 2
        k == ArgMax(e.buffer, half)
        delta == IF 1 <= k /\ k < half - 1
                 THEN ParabolicDelta(Mag(e.buffer, k - 1), Mag(e.buffer, k),
                                     Mag(e.buffer, k + 1))
                 ELSE RZero
    IN  IF IsNone(delta) THEN None
        ELSE RDiv(RMul(RAdd(R(k), delta), e.fs), R(e.frame_len))

\* a constructor that checks fs alone, for comparison
IpDFTConfigErrorLax(cfg) ==
    IF RLe(Get(cfg, "fs", RZero), RZero) THEN "ValueError" ELSE "none"

\* the checks of IpDFT.__init__: what it raises, if anything
IpDFTConfigError(cfg) ==
    IF RLe(Get(cfg, "fs", RZero), RZero) THEN "ValueError"
    ELSE IF Get(cfg, "frame_len", 50) <= 2 THEN "ValueError"
    ELSE "none"

\* the estimator IpDFT.__init__ leaves behind when it returns
IpDFTNew(cfg) ==
    [fs |-> Get(cfg, "fs", RZero),
     frame_len |-> Get(cfg, "frame_len", 50),
     channel |-> Get(cfg, "channel", "V1"),
     nominal_hz |-> Get(cfg, "nominal_hz", R(60)),
     buffer |-> [i \in 1 .. Get(cfg, "frame_len", 50) |-> 0],
     ptr |-> 0, filled |-> FALSE, last_freq |-> None, last_ts |-> None]

\* a reset that keeps the frame marked as filled, for comparison
ipdft_reset_keeps_filled(e) ==
    [e EXCEPT !.buffer = [i \in 1 .. e.frame_len |-> 0], !.ptr = 0,
              !.last_freq = None, !.last_ts = None]

\* IpDFT.reset
ipdft_reset(e) ==
    [e EXCEPT !.buffer = [i \in 1 .. e.frame_len |-> 0], !.ptr = 0,
              !.filled = FALSE, !.last_freq = None, !.last_ts = None]

\* the sample IpDFT.update reads: getattr(measures, channel, 0.0)
IpDFTSample(e, snap) == IF e.channel \in DOMAIN snap THEN snap[e.channel] ELSE 0

\* a slide that marks the frame filled only while the cursor is at zero, for
\* comparison
IpDFTSlideUnlatched(e, x) ==
    [e EXCEPT !.buffer[e.ptr + 1] = x, !.ptr = (e.ptr + 1) % e.frame_len,
              !.filled = (e.ptr + 1) % e.frame_len = 0]

\* "slide buffer" of IpDFT.update (lines 81-85)
IpDFTSlide(e, x) ==
    LET ptr1 == (e.ptr + 1) % e.frame_len
    IN  [e EXCEPT !.buffer[e.ptr + 1] = x, !.ptr = ptr1,
                  !.filled = e.filled \/ ptr1 = 0]

\* the finite difference of IpDFT.update (lines 90-95)
IpDFTRocof(e, f_hat, ts) ==
    IF Present(e.last_freq) /\ Present(e.last_ts)
    THEN IF RLt(RZero, RSub(ts, e.last_ts))
         THEN RDiv(RSub(f_hat, e.last_freq), RSub(ts, e.last_ts))
         ELSE RZero
    ELSE RZero

\* IpDFT.update(measures): the new estimator state and the PMU_Output; a
\* division by zero raises after the sample was written to the buffer
ipdft_update(e, snap) ==
    LET ts == snap.timestamp
        x == IpDFTSample(e, snap)
        e1 == IpDFTSlide(e, x)
    IN  IF e.channel \in NotNumeric(snap)
        THEN [est |-> e, err |-> "TypeError", frequency_hz |-> None,
              rocof_hz_s |-> None, timestamp_utc |-> None]
        ELSE
        CHOOSE o \in
          { WithPhasors(
            IF IsNone(f_hat) \/ IsNone(IpDFTRocof(e, f_hat, ts))
            THEN [est |-> e1, err |-> "ZeroDivisionError", frequency_hz |-> None,
                  rocof_hz_s |-> None, timestamp_utc |-> None]
            ELSE [est |-> [e1 EXCEPT !.last_freq = f_hat, !.last_ts = ts],
                  err |-> "none", frequency_hz |-> f_hat,
                  rocof_hz_s |-> IpDFTRocof(e, f_hat, ts),
                  timestamp_utc |-> ts], snap) :
            f_hat \in {IF e1.filled THEN estimate_freq(e1) ELSE e1.nominal_hz} } :
          TRUE

(* ------------------ multi-phase aggregator: multi.py ------------------ *)

RECURSIVE RSum(_)
RSum(seq) == IF seq = <<>> THEN RZero ELSE RAdd(Head(seq), RSum(Tail(seq)))

\* sorted(vals)
RECURSIVE Insert(_, _)
Insert(x, seq) ==
    IF seq = <<>> THEN <<x>>
    ELSE IF RLe(x, Head(seq)) THEN <<x>> \o seq
    ELSE <<Head(seq)>> \o Insert(x, Tail(seq))

RECURSIVE Sorted(_)
Sorted(seq) == IF seq = <<>> THEN <<>> ELSE Insert(Head(seq), Sorted(Tail(seq)))

\* an aggregation whose median of an even count is the upper middle element,
\* for comparison
agg_upper_median(vals, mode) ==
    IF vals = <<>> THEN RZero
    ELSE IF mode = "mean" THEN RDiv(RSum(vals), R(Len(vals)))
    ELSE Sorted(vals)[Len(vals) \div 2 + 1]

\* _agg(vals, mode); the sorted list is 1-based here
agg(vals, mode) ==
    IF vals = <<>> THEN RZero
    ELSE IF mode = "mean" THEN RDiv(RSum(vals), R(Len(vals)))
    ELSE LET vals_sorted == Sorted(vals)
             m == Len(vals_sorted) \div 2
         IN  IF Len(vals_sorted) % 2 = 1 THEN vals_sorted[m + 1]
             ELSE RDiv(RAdd(vals_sorted[m], vals_sorted[m + 1]), R(2))

ValidChannels == {"V1", "V2", "V3", "I1", "I2", "I3"}

RECURSIVE Filter(_, _)
Filter(seq, keep) ==
    IF seq = <<>> THEN <<>>
    ELSE IF Head(seq) \in keep THEN <<Head(seq)>> \o Filter(Tail(seq), keep)
    ELSE Filter(Tail(seq), keep)

Range(seq) == {seq[i] : i \in DOMAIN seq}

\* the estimator ZCDMulti.__init__ leaves behind
MultiNew(cfg) ==
    LET kept == Filter(Get(cfg, "channels", <<"V1", "V2", "V3">>), ValidChannels)
    IN  [channels |-> IF kept # <<>> THEN kept ELSE <<"V1", "V2", "V3">>,
         agg_mode |-> Get(cfg, "agg", "median"),
         core_cfg |-> ZCDConfig(Get(cfg, "epsilon", RZero),
                                Get(cfg, "nominal_hz", R(60)),
                                Get(cfg, "mode", "neg_to_pos"))]

\* a loop that leaves the first core where it was, for comparison
AdvanceAllButFirst(cs, cfg, keys, value, ts) ==
    [k \in Range(keys) |->
        IF k = keys[1]
        THEN [update_scalar(cs[k], cfg, R(value[k]), ts) EXCEPT !.st = cs[k]]
        ELSE update_scalar(cs[k], cfg, R(value[k]), ts)]

\* the loop over self.cores.items() of ZCDMulti.update and DistributedZCD.step:
\* every core is advanced once, with its own value; what each call returned
AdvanceAll(cs, cfg, keys, value, ts) ==
    [k \in Range(keys) |-> update_scalar(cs[k], cfg, R(value[k]), ts)]

\* the place in `keys` of the first key whose value float() rejects, 0 when
\* there is none
FirstNotNumeric(keys, bad) ==
    IF \E i \in DOMAIN keys : keys[i] \in bad
    THEN CHOOSE i \in DOMAIN keys :
             /\ keys[i] \in bad
             /\ \A j \in 1 .. i - 1 : keys[j] \notin bad
    ELSE 0

\* the cores when the loop over `keys` raised at place stop: the cores of
\* the keys before it were advanced, the others were not
AdvanceUntil(cs, cfg, keys, value, ts, stop) ==
    [k \in DOMAIN cs |->
        IF \E i \in 1 .. stop - 1 : keys[i] = k
        THEN update_scalar(cs[k], cfg, R(value[k]), ts).st
        ELSE cs[k]]

\* the list a loop over `keys` collects from the per-core results
Collect(keys, res, field) == [i \in DOMAIN keys |-> res[keys[i]][field]]

\* keys of a dict built from a list: the list without its repeats
RECURSIVE Dedup(_)
Dedup(seq) ==
    IF seq = <<>> THEN <<>>
    ELSE LET init == Dedup(SubSeq(seq, 1, Len(seq) - 1))
         IN  IF seq[Len(seq)] \in Range(init) THEN init
             ELSE init \o <<seq[Len(seq)]>>

\* getattr(measures, ch, 0.0) / payload.get(n, {}).get("value", 0.0), per key
ValuesOrZero(keys, src) ==
    [k \in Range(keys) |-> IF k \in DOMAIN src THEN src[k] ELSE 0]

\* an output stamped with the last crossing of the first channel instead of
\* the snapshot timestamp, for comparison
MultiOutputAtCrossing(e, keys, res, ts) ==
    [cores |-> [k \in DOMAIN res |-> res[k].st], err |-> "none",
     frequency_hz |-> agg(Collect(keys, res, "freq_hz"), e.agg_mode),
     rocof_hz_s |-> agg(Collect(keys, res, "rocof_hz_s"), e.agg_mode),
     timestamp_utc |-> IF Present(res[keys[1]].st.last_cross_ts)
                       THEN res[keys[1]].st.last_cross_ts ELSE ts]

\* lines 92-107 of ZCDMulti.update: aggregation of the per-core results
MultiOutput(e, keys, res, ts) ==
    [cores |-> [k \in DOMAIN res |-> res[k].st], err |-> "none",
     frequency_hz |-> agg(Collect(keys, res, "freq_hz"), e.agg_mode),
     rocof_hz_s |-> agg(Collect(keys, res, "rocof_hz_s"), e.agg_mode),
     timestamp_utc |-> ts]

\* ZCDMulti.update(measures): the cores after it and the PMU_Output
multi_update(cs, e, snap) ==
    LET ts == snap.timestamp
        keys == Dedup(e.channels)
        stop == FirstNotNumeric(keys, NotNumeric(snap))
    IN  IF stop > 0
        THEN [cores |-> AdvanceUntil(cs, e.core_cfg, keys,
                                     ValuesOrZero(keys, snap), ts, stop),
              err |-> "TypeError", frequency_hz |-> None, rocof_hz_s |-> None,
              timestamp_utc |-> None]
        ELSE
        CHOOSE o \in
            { MultiOutput(e, keys, res, ts) :
              res \in {AdvanceAll(cs, e.core_cfg, keys, ValuesOrZero(keys, snap), ts)} } :
            TRUE

(* ------------------ distributed engine: distributed.py ---------------- *)

Max(a, b) == IF a >= b THEN a ELSE b

\* deg[i] = max(1, len(neigh)); deg.get(j, 1)
Deg(adj, i) == IF i \in DOMAIN adj THEN Max(1, Len(adj[i])) ELSE 1

\* a weight from the degree of i alone, for comparison
WijOwnDegree(adj, i, j) == <<1, 1 + Deg(adj, i)>>

Wij(adj, i, j) == <<1, 1 + Max(Deg(adj, i), Deg(adj, j))>>

\* s after the loop over the neighbour list of i
RECURSIVE RowSum(_, _, _)
RowSum(adj, i, neigh) ==
    IF neigh = <<>> THEN RZero
    ELSE RAdd(Wij(adj, i, Head(neigh)), RowSum(adj, i, Tail(neigh)))

\* max(0.0, 1.0 - s)
SelfWeight(adj, i) ==
    LET w == RSub(R(1), RowSum(adj, i, adj[i]))
    IN  IF RLt(w, RZero) THEN RZero ELSE w

\* metropolis_weights(adj): the table, keyed by pairs; W[(i, i)] is written last
metropolis_weights(adj) ==
    [p \in {<<i, j>> : i \in DOMAIN adj, j \in DOMAIN adj \cup
                       UNION {Range(adj[n]) : n \in DOMAIN adj}}
           \cap ({<<i, i>> : i \in DOMAIN adj}
                 \cup UNION {{<<i, j>> : j \in Range(adj[i])} : i \in DOMAIN adj})
     |-> IF p[1] = p[2] THEN SelfWeight(adj, p[1]) ELSE Wij(adj, p[1], p[2])]

EmptyW == [p \in {} |-> RZero]

\* W.get(key, 0.0)
WGet(W, i, j) == IF <<i, j>> \in DOMAIN W THEN W[<<i, j>>] ELSE RZero

\* the test DistributedZCD.__init__ makes: what it raises, if anything
DistConfigError(cfg) ==
    IF Get(cfg, "nodes", <<>>) = <<>> THEN "ValueError" ELSE "none"

\* the engine DistributedZCD.__init__ leaves behind when it returns
DistNew(cfg) ==
    LET nodes == Get(cfg, "nodes", <<>>)
        given == Get(cfg, "adjacency", [n \in {} |-> <<>>])
        adj == [n \in Range(nodes) |-> Get(given, n, <<>>)]
    IN  [nodes |-> nodes,
         core_cfg |-> ZCDConfig(Get(cfg, "epsilon", RZero),
                                Get(cfg, "nominal_hz", R(60)),
                                Get(cfg, "mode", "neg_to_pos")),
         adj |-> adj,
         W |-> IF \E n \in DOMAIN adj : adj[n] # <<>>
               THEN metropolis_weights(adj) ELSE EmptyW,
         fuse_mode |-> Get(cfg, "fuse", "consensus"),
         alpha |-> Get(cfg, "consensus_alpha", R(1)),
         last_fused_freq |-> None, last_fused_rocof |-> None]

\* the inner loop of _fuse_consensus over the neighbour list of i
RECURSIVE NeighbourSum(_, _, _, _)
NeighbourSum(e, local_f, i, neigh) ==
    IF neigh = <<>> THEN RZero
    ELSE LET j == Head(neigh)
         IN  RAdd(RMul(WGet(e.W, i, j),
                       IF j \in DOMAIN local_f THEN local_f[j] ELSE local_f[i]),
                  NeighbourSum(e, local_f, i, Tail(neigh)))

\* sum(d.values()) / max(1, len(d)) for the keys in order
MeanOf(keys, d) ==
    RDiv(RSum([i \in DOMAIN keys |-> d[keys[i]]]), R(Max(1, Len(keys))))

\* a fusion that always takes the full weighted step, whatever
\* consensus_alpha is, for comparison
fuse_consensus_full_step(e, keys, local_f) ==
    IF DOMAIN e.W = {}
    THEN [n \in DOMAIN local_f |-> MeanOf(keys, local_f)]
    ELSE [i \in DOMAIN local_f |->
            RAdd(RMul(WGet(e.W, i, i), local_f[i]),
                 NeighbourSum(e, local_f, i, Get(e.adj, i, <<>>)))]

\* a fusion that leaves every node its local value when there is no weight
\* table, for comparison
fuse_consensus_keeps_local(e, keys, local_f) ==
    IF DOMAIN e.W = {}
    THEN local_f
    ELSE [i \in DOMAIN local_f |->
            LET acc == RAdd(RMul(WGet(e.W, i, i), local_f[i]),
                            NeighbourSum(e, local_f, i, Get(e.adj, i, <<>>)))
            IN  RAdd(RMul(RSub(R(1), e.alpha), local_f[i]), RMul(e.alpha, acc))]

\* DistributedZCD._fuse_consensus(local_f)
fuse_consensus(e, keys, local_f) ==
    IF DOMAIN e.W = {}
    THEN [n \in DOMAIN local_f |-> MeanOf(keys, local_f)]
    ELSE [i \in DOMAIN local_f |->
            LET acc == RAdd(RMul(WGet(e.W, i, i), local_f[i]),
                            NeighbourSum(e, local_f, i, Get(e.adj, i, <<>>)))
            IN  RAdd(RMul(RSub(R(1), e.alpha), local_f[i]), RMul(e.alpha, acc))]

\* a step that fuses the RoCoF with the graph weights, for comparison
DistResultWeightedRocof(e, keys, res, ts, local_freq, local_rocof, fc) ==
    LET consensus == e.fuse_mode = "consensus"
    IN  CHOOSE o \in
          { [cores |-> [n \in DOMAIN res |-> res[n].st],
             est |-> [e EXCEPT !.last_fused_freq =
                                   IF consensus THEN MeanOf(keys, fc) ELSE mean_f,
                               !.last_fused_rocof = fused_r],
             err |-> "none",
             timestamp |-> ts,
             local |-> [n \in Range(e.nodes) |->
                          [freq_hz |-> local_freq[n],
                           rocof_hz_s |-> local_rocof[n]]],
             fused |-> IF consensus
                       THEN [mean_freq_hz |-> mean_f, mean_rocof_hz_s |-> mean_r]
                            @@ [consensus_freq_hz |-> fc]
                       ELSE [mean_freq_hz |-> mean_f, mean_rocof_hz_s |-> mean_r]] :
            mean_f \in {MeanOf(keys, local_freq)},
            mean_r \in {MeanOf(keys, local_rocof)},
            fused_r \in {IF consensus
                          THEN MeanOf(keys, fuse_consensus(e, keys, local_rocof))
                          ELSE MeanOf(keys, local_rocof)} } : TRUE

\* the result record of DistributedZCD.step, from the local estimates and
\* the consensus vector fc (unused unless fuse = "consensus")
DistResult(e, keys, res, ts, local_freq, local_rocof, fc) ==
    LET consensus == e.fuse_mode = "consensus"
    IN  CHOOSE o \in
          { [cores |-> [n \in DOMAIN res |-> res[n].st],
             est |-> [e EXCEPT !.last_fused_freq =
                                   IF consensus THEN MeanOf(keys, fc) ELSE mean_f,
                               !.last_fused_rocof = mean_r],
             err |-> "none",
             timestamp |-> ts,
             local |-> [n \in Range(e.nodes) |->
                          [freq_hz |-> local_freq[n],
                           rocof_hz_s |-> local_rocof[n]]],
             fused |-> IF consensus
                       THEN [mean_freq_hz |-> mean_f, mean_rocof_hz_s |-> mean_r]
                            @@ [consensus_freq_hz |-> fc]
                       ELSE [mean_freq_hz |-> mean_f, mean_rocof_hz_s |-> mean_r]] :
            mean_f \in {MeanOf(keys, local_freq)},
            mean_r \in {MeanOf(keys, local_rocof)} } : TRUE

\* step 2 of DistributedZCD.step: the fusion of the per-node results
DistOutput(e, keys, res, ts) ==
    CHOOSE o \in
      { DistResult(e, keys, res, ts, lf, lr,
                   IF e.fuse_mode = "consensus"
                   THEN fuse_consensus(e, keys, lf) ELSE lf) :
        lf \in {[n \in DOMAIN res |-> res[n].freq_hz]},
        lr \in {[n \in DOMAIN res |-> res[n].rocof_hz_s]} } : TRUE

\* DistributedZCD.step(sample): the cores and engine after it, and the result
dist_step(cs, e, sample) ==
    LET ts == sample.timestamp
        keys == Dedup(e.nodes)
        stop == FirstNotNumeric(keys, NotNumeric(sample))
    IN  IF stop > 0
        THEN [cores |-> AdvanceUntil(cs, e.core_cfg, keys,
                                     ValuesOrZero(keys, sample.nodes), ts, stop),
              est |-> e, err |-> "TypeError", timestamp |-> None,
              local |-> <<>>, fused |-> <<>>]
        ELSE
        CHOOSE o \in
            { DistOutput(e, keys, res, ts) :
              res \in {AdvanceAll(cs, e.core_cfg, keys,
                                  ValuesOrZero(keys, sample.nodes), ts)} } :
            TRUE

(* ------------------------------ state --------------------------------- *)

VARIABLES
    variant,   \* which estimator the driver instantiates
    phase,     \* "new" before the constructor ran, then "ready" or "raised"
    config,    \* the configuration handed to the constructor
    cores,     \* the ZCDState of every owned core, by channel / node / "core"
    memory,    \* EstimatorBase.memory (single-phase: the estimator's state)
    est,       \* the estimator object's own attributes (IpDFT, multi, distributed);
               \* in the periodic runs, the signal that is fed
    ref,       \* single-phase only: a core fed the same channel, for comparison
    out,       \* what the last update / step call returned (or raised)
    last_op,   \* the last operation: "none", "construct", "update", "reset"
    arg,       \* the argument of the last update / step call since the reset
    obs        \* observer of the crossings the core reported (see Observe)

vars ==
    <<variant, phase, config, cores, memory, est, ref, out, last_op, arg, obs>>

NoOut == [err |-> "nocall"]
NoArg == [timestamp |-> None]
NoEst == [frame_len |-> 0]
NoRef == [st |-> ZCDState, freq_hz |-> None, rocof_hz_s |-> None]

\* period bounds in use: two valid pairs, min = 0, and min > max
PeriodCfgs ==
    { [min |-> R(1), max |-> R(2)],
      [min |-> <<1, 2>>, max |-> R(1)],
      [min |-> R(0), max |-> R(1)],
      [min |-> R(2), max |-> R(1)] }

Epsilons == {R(0), R(1)}

CoreConfigs ==
    { [epsilon |-> e, nominal_hz |-> DefaultNominalHz, mode |-> m,
       min_period_s |-> p.min, max_period_s |-> p.max] :
      e \in Epsilons, m \in CrossingModes, p \in PeriodCfgs }

ValidPeriods(cfg) ==
    RLt(RZero, cfg.min_period_s) /\ RLe(cfg.min_period_s, cfg.max_period_s)

(* the observer: the time of the last crossing a call reported, and how many
   reported crossings in a row were spaced within [min_period_s, max_period_s]
   of the one before while no period was accepted *)
StallLimit == 2

NoObs == [seen |-> None, streak |-> 0]

Observe(o, cfg, before, res) ==
    IF res.err # "none" \/ ~res.crossed THEN o
    ELSE LET spaced == /\ Present(o.seen)
                       /\ RLe(cfg.min_period_s, RSub(res.t_cross, o.seen))
                       /\ RLe(RSub(res.t_cross, o.seen), cfg.max_period_s)
             accepted == res.st.last_cross_ts # before.last_cross_ts
                         /\ Present(before.last_cross_ts)
         IN  [seen |-> res.t_cross,
              streak |-> IF accepted \/ ~spaced THEN 0
                         ELSE IF o.streak < StallLimit THEN o.streak + 1
                         ELSE o.streak]

(* ------------------------ the core, driven alone ----------------------- *)

InitCore ==
    /\ variant = "core"
    /\ phase = "new"
    /\ config \in CoreConfigs
    /\ cores = <<>>
    /\ memory = EmptyMemory
    /\ est = NoEst
    /\ ref = NoRef
    /\ out = NoOut
    /\ last_op = "none"
    /\ arg = NoArg
    /\ obs = NoObs

\* ZCDEstimatorBase.__init__
ConstructCore ==
    /\ variant = "core"
    /\ phase = "new"
    /\ phase' = "ready"
    /\ cores' = [c \in {"core"} |-> ZCDState]
    /\ last_op' = "construct"
    /\ UNCHANGED <<variant, config, memory, est, ref, out, obs, arg>>

\* ZCDEstimatorBase.reset
ResetCore ==
    /\ variant = "core"
    /\ phase = "ready"
    /\ cores' = [c \in {"core"} |-> ZCDState]
    /\ last_op' = "reset"
    /\ obs' = NoObs
    /\ arg' = NoArg
    /\ UNCHANGED <<variant, phase, config, memory, est, ref, out>>

\* one update_scalar(value, t) call, t a rational
CoreStepAt(value, t) ==
    /\ variant = "core"
    /\ phase = "ready"
    /\ \E res \in {update_scalar(cores["core"], config, R(value), t)} :
           /\ cores' = [cores EXCEPT !["core"] = res.st]
           /\ out' = [err |-> res.err, freq_hz |-> res.freq_hz,
                      rocof_hz_s |-> res.rocof_hz_s, crossed |-> res.crossed,
                      t_cross |-> res.t_cross]
    /\ last_op' = "update"
    /\ arg' = [value |-> value, timestamp |-> t]
    /\ UNCHANGED <<variant, phase, config, memory, est, ref>>

\* the call with a whole number of seconds
CoreStep(value, ts) == CoreStepAt(value, R(ts))

UpdateCore(value, ts) == CoreStep(value, ts) /\ UNCHANGED obs

\* the same call, with the observer watching what it returns
UpdateCoreObserved(value, ts) ==
    /\ CoreStep(value, ts)
    /\ \E res \in {update_scalar(cores["core"], config, R(value), R(ts))} :
           obs' = Observe(obs, config, cores["core"], res)

\* timestamps as the input contract has them: non-decreasing ...
InOrder(st, ts) == IsNone(st.prev_ts) \/ RLe(st.prev_ts, ts)

\* ... and, from one snapshot to the next, increasing
Later(st, ts) == IsNone(st.prev_ts) \/ RLt(st.prev_ts, ts)

NextCore ==
    \/ ConstructCore
    \/ ResetCore
    \/ \E value \in Vals, ts \in Times :
          /\ variant = "core" /\ phase = "ready"
          /\ Later(cores["core"], R(ts))
          /\ UpdateCore(value, ts)

NextCoreObserved ==
    \/ ConstructCore
    \/ ResetCore
    \/ \E value \in Vals, ts \in Times :
          /\ variant = "core" /\ phase = "ready"
          /\ Later(cores["core"], R(ts))
          /\ UpdateCoreObserved(value, ts)

NextCoreAnyOrder ==
    \/ ConstructCore
    \/ ResetCore
    \/ \E value \in Vals, ts \in AnyTimes : UpdateCore(value, ts)

\* the core fed samples with increasing timestamps
SpecCore == InitCore /\ [][NextCore]_vars

\* the same, with a valid configuration and the observer watching
InitCoreObserved ==
    /\ variant = "core"
    /\ phase = "new"
    /\ config \in {c \in CoreConfigs : ValidPeriods(c)}
    /\ cores = <<>>
    /\ memory = EmptyMemory
    /\ est = NoEst
    /\ ref = NoRef
    /\ out = NoOut
    /\ last_op = "none"
    /\ arg = NoArg
    /\ obs = NoObs

SpecCoreObserved == InitCoreObserved /\ [][NextCoreObserved]_vars

\* the core fed samples whose timestamps repeat and go back
SpecCoreAnyOrder == InitCore /\ [][NextCoreAnyOrder]_vars

\* every ZCDConfig the dataclass takes: min_period_s may also be negative
UncheckedConfigs ==
    CoreConfigs
    \cup { [epsilon |-> e, nominal_hz |-> DefaultNominalHz, mode |-> m,
            min_period_s |-> RNeg(R(1)), max_period_s |-> R(1)] :
          e \in Epsilons, m \in CrossingModes }

InitCoreUnchecked ==
    /\ variant = "core"
    /\ phase = "new"
    /\ config \in UncheckedConfigs
    /\ cores = <<>>
    /\ memory = EmptyMemory
    /\ est = NoEst
    /\ ref = NoRef
    /\ out = NoOut
    /\ last_op = "none"
    /\ arg = NoArg
    /\ obs = NoObs

SpecCoreUnchecked == InitCoreUnchecked /\ [][NextCore]_vars

(* ---------------------- the single-phase estimator --------------------- *)

memory_prev_ts(mem) == IF "prev_ts" \in DOMAIN mem THEN mem.prev_ts ELSE None

\* PMU_Input snapshots: every field is present; the model carries V1 and the
\* timestamp (the other channels only feed the placeholder phasors)
Snapshots == { [V1 |-> a, timestamp |-> R(t)] : a \in Vals, t \in Times }

\* "V9" is no field of PMU_Input
SingleConfigs ==
    { [channel |-> c, epsilon |-> e] : c \in {"V1", "V9"}, e \in Epsilons }

\* the ZCDConfig a core gets from the single-phase configuration
RefConfig(cfg) ==
    [epsilon |-> Get(cfg, "epsilon", DefaultEpsilon),
     nominal_hz |-> Get(cfg, "nominal_hz", DefaultNominalHz),
     mode |-> Get(cfg, "mode", DefaultMode),
     min_period_s |-> Get(cfg, "min_period_s", DefaultMinPeriod),
     max_period_s |-> Get(cfg, "max_period_s", DefaultMaxPeriod)]

InitSingle ==
    /\ variant = "single"
    /\ phase = "new"
    /\ config \in SingleConfigs
    /\ cores = <<>>
    /\ memory = EmptyMemory
    /\ est = NoEst
    /\ ref = NoRef
    /\ out = NoOut
    /\ last_op = "none"
    /\ arg = NoArg
    /\ obs = NoObs

\* ZeroCrossing.__init__
ConstructSingle ==
    /\ variant = "single"
    /\ phase = "new"
    /\ phase' = "ready"
    /\ memory' = SingleMemory
    /\ ref' = NoRef
    /\ last_op' = "construct"
    /\ UNCHANGED <<variant, config, cores, est, out, obs, arg>>

\* EstimatorBase.reset (ZeroCrossing does not override it)
ResetSingle ==
    /\ variant = "single"
    /\ phase = "ready"
    /\ memory' = EmptyMemory
    /\ ref' = NoRef
    /\ last_op' = "reset"
    /\ arg' = NoArg
    /\ UNCHANGED <<variant, phase, config, cores, est, out, obs>>

\* ZeroCrossing.update(measures)
SingleCall(snap) ==
    /\ variant = "single"
    /\ phase = "ready"
    /\ IsNone(memory_prev_ts(memory)) \/ RLt(memory_prev_ts(memory), snap.timestamp)
    /\ \E res \in {single_update(memory, config, snap)} :
           /\ memory' = res.mem
           /\ out' = [err |-> res.err, frequency_hz |-> res.frequency_hz,
                      rocof_hz_s |-> res.rocof_hz_s,
                      timestamp_utc |-> res.timestamp_utc]
    /\ last_op' = "update"
    /\ arg' = snap
    /\ UNCHANGED <<variant, phase, config, cores, est>>

SingleStep(snap) == SingleCall(snap) /\ UNCHANGED obs

UpdateSingle(snap) == SingleStep(snap) /\ UNCHANGED ref

\* the same call; when it returns, a reference core is fed the value and
\* timestamp it read
UpdateSingleWithRef(snap) ==
    /\ SingleStep(snap)
    /\ IF single_update(memory, config, snap).err = "none"
       THEN \E r \in {update_scalar(ref.st, RefConfig(config),
                                     R(snap[Get(config, "channel", "V1")]),
                                     snap.timestamp)} :
               ref' = [st |-> r.st, freq_hz |-> r.freq_hz,
                       rocof_hz_s |-> r.rocof_hz_s]
       ELSE ref' = ref

NextSingle ==
    \/ ConstructSingle
    \/ ResetSingle
    \/ \E snap \in Snapshots : UpdateSingle(snap)

NextSingleWithRef ==
    \/ ConstructSingle
    \/ ResetSingle
    \/ \E snap \in Snapshots : UpdateSingleWithRef(snap)

SpecSingle == InitSingle /\ [][NextSingle]_vars

\* the single-phase estimator and a core side by side on the same input
SpecSingleWithRef == InitSingle /\ [][NextSingleWithRef]_vars

(* --------------------------- the IpDFT estimator ----------------------- *)

\* sample values fed to the frame
FrameVals == {0 - 1, 0, 1}

FrameSnapshots == { [V1 |-> a, timestamp |-> R(t)] : a \in FrameVals, t \in Times }

\* configurations handed to IpDFT: fs missing, zero or 4 Hz
IpDFTConfigs ==
    { [frame_len |-> n, channel |-> c] : n \in FrameLens, c \in {"V1"} }
    \cup { [fs |-> f, frame_len |-> n, channel |-> c] :
           f \in {R(0), R(4)}, n \in FrameLens, c \in {"V1", "V9"} }

InitIpDFT ==
    /\ variant = "ipdft"
    /\ phase = "new"
    /\ config \in IpDFTConfigs
    /\ cores = <<>>
    /\ memory = EmptyMemory
    /\ est = NoEst
    /\ ref = NoRef
    /\ out = NoOut
    /\ last_op = "none"
    /\ arg = NoArg
    /\ obs = NoObs

\* IpDFT.__init__: raises, or returns the estimator
ConstructIpDFT ==
    /\ variant = "ipdft"
    /\ phase = "new"
    /\ IF IpDFTConfigError(config) # "none"
       THEN phase' = "raised" /\ est' = est
       ELSE phase' = "ready" /\ est' = IpDFTNew(config)
    /\ last_op' = "construct"
    /\ UNCHANGED <<variant, config, cores, memory, ref, out, obs, arg>>

\* IpDFT.reset (super().reset() clears the empty memory)
ResetIpDFT ==
    /\ variant = "ipdft"
    /\ phase = "ready"
    /\ est' = ipdft_reset(est)
    /\ memory' = EmptyMemory
    /\ last_op' = "reset"
    /\ arg' = NoArg
    /\ obs' = NoObs
    /\ UNCHANGED <<variant, phase, config, cores, ref, out>>

\* IpDFT.update(measures)
IpDFTCall(snap) ==
    /\ variant = "ipdft"
    /\ phase = "ready"
    /\ \E res \in {ipdft_update(est, snap)} :
           /\ est' = res.est
           /\ out' = [err |-> res.err, frequency_hz |-> res.frequency_hz,
                      rocof_hz_s |-> res.rocof_hz_s,
                      timestamp_utc |-> res.timestamp_utc]
    /\ last_op' = "update"
    /\ arg' = snap
    /\ UNCHANGED <<variant, phase, config, cores, memory, ref>>

IpDFTStep(snap) == IpDFTCall(snap) /\ UNCHANGED obs

\* the call with a timestamp not before the last one
UpdateIpDFT(snap) ==
    /\ variant = "ipdft"
    /\ phase = "ready"
    /\ IsNone(est.last_ts) \/ RLe(est.last_ts, snap.timestamp)
    /\ IpDFTStep(snap)

NextIpDFT ==
    \/ ConstructIpDFT
    \/ ResetIpDFT
    \/ \E snap \in FrameSnapshots : UpdateIpDFT(snap)

SpecIpDFT == InitIpDFT /\ [][NextIpDFT]_vars

\* IpDFT with an observer that counts the update calls since construction or
\* reset (at most MaxCalls of them), keeps the values the snapshots of the
\* last frame_len calls carried on the configured channel, oldest first, and
\* what the call before the last one returned
MaxCalls == 6

NoCalls ==
    [calls |-> 0, recent |-> <<>>, prev_freq |-> None, prev_ts |-> None]

Counted(o) == IF "calls" \in DOMAIN o THEN o ELSE NoCalls

CountCall(o, frame_len, x, before) ==
    [calls |-> Counted(o).calls + 1,
     recent |-> IF Len(Counted(o).recent) < frame_len
                THEN Append(Counted(o).recent, x)
                ELSE Append(Tail(Counted(o).recent), x),
     prev_freq |-> IF Counted(o).calls = 0 THEN None ELSE before.frequency_hz,
     prev_ts |-> IF Counted(o).calls = 0 THEN None ELSE before.timestamp_utc]

UpdateIpDFTCounted(snap) ==
    /\ variant = "ipdft"
    /\ phase = "ready"
    /\ Counted(obs).calls < MaxCalls
    /\ IsNone(est.last_ts) \/ RLe(est.last_ts, snap.timestamp)
    /\ IpDFTCall(snap)
    /\ obs' = CountCall(obs, est.frame_len, snap[est.channel], out)

InitIpDFTCounted ==
    /\ variant = "ipdft"
    /\ phase = "new"
    /\ config \in { [fs |-> R(4), frame_len |-> n, channel |-> "V1"] :
                     n \in FrameLens \ {2} }
    /\ cores = <<>>
    /\ memory = EmptyMemory
    /\ est = NoEst
    /\ ref = NoRef
    /\ out = NoOut
    /\ last_op = "none"
    /\ arg = NoArg
    /\ obs = NoObs

CountedSnapshots ==
    { [V1 |-> a, timestamp |-> R(t)] : a \in FrameVals, t \in 0 .. MaxCalls }

NextIpDFTCounted ==
    \/ ConstructIpDFT
    \/ ResetIpDFT
    \/ \E snap \in CountedSnapshots : UpdateIpDFTCounted(snap)

SpecIpDFTCounted == InitIpDFTCounted /\ [][NextIpDFTCounted]_vars

(* ------------------------ the multi-phase aggregator ------------------- *)

\* per-channel sample values
PhaseVals == {0 - 1, 1}

\* timestamps of the multi-phase and multi-node snapshots: half seconds
HalfSeconds == { Norm(t, 2) : t \in Times }

PhaseSnapshots ==
    { [V1 |-> a, V2 |-> b, V3 |-> c, timestamp |-> t] :
      a \in PhaseVals, b \in PhaseVals, c \in PhaseVals, t \in HalfSeconds }

\* configurations handed to ZCDMulti; "bogus" is no mode and no aggregation,
\* "V9" is no channel name
MultiConfigs ==
    { [channels |-> <<"V1">>, mode |-> "either", agg |-> "mean"],
      [channels |-> <<"V1", "V2">>, agg |-> "median"],
      [channels |-> <<"V1", "V2">>, mode |-> "pos_to_neg", agg |-> "mean"],
      [channels |-> <<"V9", "V2", "V3">>, mode |-> "bogus"],
      [channels |-> <<"V9">>, agg |-> "bogus"] }

InitMulti ==
    /\ variant = "multi"
    /\ phase = "new"
    /\ config \in MultiConfigs
    /\ cores = <<>>
    /\ memory = EmptyMemory
    /\ est = NoEst
    /\ ref = NoRef
    /\ out = NoOut
    /\ last_op = "none"
    /\ arg = NoArg
    /\ obs = NoObs

\* ZCDMulti.__init__
ConstructMulti ==
    /\ variant = "multi"
    /\ phase = "new"
    /\ phase' = "ready"
    /\ est' = MultiNew(config)
    /\ cores' = [ch \in Range(MultiNew(config).channels) |-> ZCDState]
    /\ last_op' = "construct"
    /\ UNCHANGED <<variant, config, memory, ref, out, obs, arg>>

\* ZCDMulti.reset
ResetMulti ==
    /\ variant = "multi"
    /\ phase = "ready"
    /\ cores' = [ch \in DOMAIN cores |-> ZCDState]
    /\ memory' = EmptyMemory
    /\ last_op' = "reset"
    /\ arg' = NoArg
    /\ UNCHANGED <<variant, phase, config, est, ref, out, obs>>

\* ZCDMulti.update(measures)
MultiCall(snap) ==
    /\ variant = "multi"
    /\ phase = "ready"
    /\ \A k \in DOMAIN cores : Later(cores[k], snap.timestamp)
    /\ \E res \in {multi_update(cores, est, snap)} :
           /\ cores' = res.cores
           /\ out' = [err |-> res.err, frequency_hz |-> res.frequency_hz,
                      rocof_hz_s |-> res.rocof_hz_s,
                      timestamp_utc |-> res.timestamp_utc]
    /\ last_op' = "update"
    /\ arg' = snap
    /\ UNCHANGED <<variant, phase, config, memory, est, ref>>

UpdateMulti(snap) == MultiCall(snap) /\ UNCHANGED obs

NextMulti ==
    \/ ConstructMulti
    \/ ResetMulti
    \/ \E snap \in PhaseSnapshots : UpdateMulti(snap)

SpecMulti == InitMulti /\ [][NextMulti]_vars

\* the aggregator with two or three channels and a valid aggregation
AggConfigs ==
    { [channels |-> <<"V1", "V2", "V3">>, agg |-> "median"],
      [channels |-> <<"V1", "V2">>, mode |-> "either", agg |-> "mean"],
      [channels |-> <<"V1", "V2">>, mode |-> "pos_to_neg", agg |-> "median"] }

InitMultiAgg ==
    /\ variant = "multi"
    /\ phase = "new"
    /\ config \in AggConfigs
    /\ cores = <<>>
    /\ memory = EmptyMemory
    /\ est = NoEst
    /\ ref = NoRef
    /\ out = NoOut
    /\ last_op = "none"
    /\ arg = NoArg
    /\ obs = NoObs

SpecMultiAgg == InitMultiAgg /\ [][NextMulti]_vars

(* -------------------------- the distributed engine --------------------- *)

NodeVals == {0 - 1, 1}

\* multi-node snapshots are stamped 0, 1/2, .. MaxStepTs/2 seconds
MaxStepTs == 3
StepTimes == { Norm(t, 2) : t \in 0 .. MaxStepTs }

\* one multi-node snapshot: a timestamp and the values of the nodes it carries
\* (all of `nodes`, or all but the first)
DistSamples(nodes) ==
    { [timestamp |-> t, nodes |-> v] :
      t \in StepTimes,
      v \in [Range(nodes) -> NodeVals] \cup [Range(Tail(nodes)) -> NodeVals] }

Line2 == [a |-> <<"b">>, b |-> <<"a">>]
Path3 == [a |-> <<"b">>, b |-> <<"a", "c">>, c |-> <<"b">>]
OneWay2 == [a |-> <<"b">>]

\* configurations handed to DistributedZCD; "bogus" is no mode and no fuse
\* value, 2 is no consensus_alpha
DistConfigs ==
    { [adjacency |-> Line2],
      [nodes |-> <<>>, adjacency |-> Line2],
      [nodes |-> <<"a", "b">>, adjacency |-> Line2],
      [nodes |-> <<"a", "b", "c">>, adjacency |-> Path3, mode |-> "either",
       consensus_alpha |-> <<1, 2>>],
      [nodes |-> <<"a", "b">>, adjacency |-> OneWay2],
      [nodes |-> <<"a", "b">>, fuse |-> "consensus"],
      [nodes |-> <<"a", "b">>, adjacency |-> Line2, fuse |-> "mean",
       mode |-> "pos_to_neg"],
      [nodes |-> <<"a", "b">>, adjacency |-> Line2, fuse |-> "none"],
      [nodes |-> <<"a", "b">>, adjacency |-> Line2, fuse |-> "bogus",
       mode |-> "bogus", consensus_alpha |-> R(2)] }

InitDist ==
    /\ variant = "dist"
    /\ phase = "new"
    /\ config \in DistConfigs
    /\ cores = <<>>
    /\ memory = EmptyMemory
    /\ est = NoEst
    /\ ref = NoRef
    /\ out = NoOut
    /\ last_op = "none"
    /\ arg = NoArg
    /\ obs = NoObs

\* DistributedZCD.__init__: raises, or returns the engine
ConstructDist ==
    /\ variant = "dist"
    /\ phase = "new"
    /\ IF DistConfigError(config) # "none"
       THEN phase' = "raised" /\ est' = est /\ cores' = cores
       ELSE /\ phase' = "ready"
            /\ est' = DistNew(config)
            /\ cores' = [n \in Range(DistNew(config).nodes) |-> ZCDState]
    /\ last_op' = "construct"
    /\ UNCHANGED <<variant, config, memory, ref, out, obs, arg>>

\* DistributedZCD.reset
ResetDist ==
    /\ variant = "dist"
    /\ phase = "ready"
    /\ cores' = [n \in DOMAIN cores |-> ZCDState]
    /\ est' = [est EXCEPT !.last_fused_freq = None, !.last_fused_rocof = None]
    /\ last_op' = "reset"
    /\ arg' = NoArg
    /\ UNCHANGED <<variant, phase, config, memory, ref, out, obs>>

\* DistributedZCD.step(sample)
StepDist(sample) ==
    /\ variant = "dist"
    /\ phase = "ready"
    /\ \A k \in DOMAIN cores : Later(cores[k], sample.timestamp)
    /\ \E res \in {dist_step(cores, est, sample)} :
           /\ cores' = res.cores
           /\ est' = res.est
           /\ out' = [err |-> res.err, timestamp |-> res.timestamp,
                      local |-> res.local, fused |-> res.fused]
    /\ last_op' = "update"
    /\ arg' = sample
    /\ UNCHANGED <<variant, phase, config, memory, ref, obs>>

NextDist ==
    \/ ConstructDist
    \/ ResetDist
    \/ /\ variant = "dist" /\ phase = "ready"
       /\ \E sample \in DistSamples(est.nodes) : StepDist(sample)

SpecDist == InitDist /\ [][NextDist]_vars

\* the engine with two nodes
InitDistPairs ==
    /\ variant = "dist"
    /\ phase = "new"
    /\ config \in {c \in DistConfigs : Len(Get(c, "nodes", <<>>)) = 2}
    /\ cores = <<>>
    /\ memory = EmptyMemory
    /\ est = NoEst
    /\ ref = NoRef
    /\ out = NoOut
    /\ last_op = "none"
    /\ arg = NoArg
    /\ obs = NoObs

SpecDistPairs == InitDistPairs /\ [][NextDist]_vars

\* two nodes in either mode, with a graph and a consensus_alpha below 1
BlendConfigs ==
    { [nodes |-> <<"a", "b">>, adjacency |-> Line2, mode |-> "either",
       consensus_alpha |-> <<1, 2>>],
      [nodes |-> <<"a", "b">>, adjacency |-> OneWay2, mode |-> "either",
       consensus_alpha |-> <<1, 4>>] }

InitDistBlend ==
    /\ variant = "dist"
    /\ phase = "new"
    /\ config \in BlendConfigs
    /\ cores = <<>>
    /\ memory = EmptyMemory
    /\ est = NoEst
    /\ ref = NoRef
    /\ out = NoOut
    /\ last_op = "none"
    /\ arg = NoArg
    /\ obs = NoObs

SpecDistBlend == InitDistBlend /\ [][NextDist]_vars

\* a path of three nodes, an edge beside a node without neighbours, and a
\* one-way edge
AverageConfigs ==
    { [nodes |-> <<"a", "b", "c">>, adjacency |-> Path3, mode |-> "either",
       consensus_alpha |-> <<1, 2>>],
      [nodes |-> <<"a", "b", "c">>, adjacency |-> Line2],
      [nodes |-> <<"a", "b">>, adjacency |-> OneWay2, mode |-> "either"] }

\* snapshots that carry a value for every node
AverageSamples(nodes) ==
    { [timestamp |-> t, nodes |-> v] :
      t \in StepTimes, v \in [Range(nodes) -> NodeVals] }

InitDistAverage ==
    /\ variant = "dist"
    /\ phase = "new"
    /\ config \in AverageConfigs
    /\ cores = <<>>
    /\ memory = EmptyMemory
    /\ est = NoEst
    /\ ref = NoRef
    /\ out = NoOut
    /\ last_op = "none"
    /\ arg = NoArg
    /\ obs = NoObs

NextDistAverage ==
    \/ ConstructDist
    \/ ResetDist
    \/ /\ variant = "dist" /\ phase = "ready"
       /\ \E sample \in AverageSamples(est.nodes) : StepDist(sample)

SpecDistAverage == InitDistAverage /\ [][NextDistAverage]_vars

\* the engine with two nodes run long enough for two different periods:
\* snapshots are stamped 0, 1/2, .. MaxRocofTs/2 seconds and the cores detect
\* crossings in either direction
MaxRocofTs == 4
RocofStepTimes == { Norm(t, 2) : t \in 0 .. MaxRocofTs }

RocofSamples(nodes) ==
    { [timestamp |-> t, nodes |-> v] :
      t \in RocofStepTimes, v \in [Range(nodes) -> NodeVals] }

RocofConfigs ==
    { [nodes |-> <<"a", "b">>, adjacency |-> OneWay2, mode |-> "either"],
      [nodes |-> <<"a", "b">>, adjacency |-> Line2, mode |-> "either",
       fuse |-> "mean"],
      [nodes |-> <<"a", "b">>, adjacency |-> OneWay2, mode |-> "either",
       fuse |-> "none"] }

InitDistRocof ==
    /\ variant = "dist"
    /\ phase = "new"
    /\ config \in RocofConfigs
    /\ cores = <<>>
    /\ memory = EmptyMemory
    /\ est = NoEst
    /\ ref = NoRef
    /\ out = NoOut
    /\ last_op = "none"
    /\ arg = NoArg
    /\ obs = NoObs

NextDistRocof ==
    \/ ConstructDist
    \/ ResetDist
    \/ /\ variant = "dist" /\ phase = "ready"
       /\ \E sample \in RocofSamples(est.nodes) : StepDist(sample)

SpecDistRocof == InitDistRocof /\ [][NextDistRocof]_vars

\* the engine with every node fed the same value in every snapshot
SelfLoop4 ==
    [a |-> <<"a", "b">>, b |-> <<"a", "c", "d">>, c |-> <<"b">>, d |-> <<"b">>]

IdenticalConfigs ==
    { [nodes |-> <<"a", "b">>, adjacency |-> Line2],
      [nodes |-> <<"a", "b", "c">>, adjacency |-> Path3,
       consensus_alpha |-> <<1, 2>>],
      [nodes |-> <<"a", "b">>, adjacency |-> OneWay2, mode |-> "either"],
      [nodes |-> <<"a", "b">>, fuse |-> "consensus"],
      [nodes |-> <<"a", "b", "c", "d">>, adjacency |-> SelfLoop4] }

IdenticalSamples(nodes) ==
    { [timestamp |-> t, nodes |-> [n \in Range(nodes) |-> v]] :
      t \in StepTimes, v \in NodeVals }

InitDistIdentical ==
    /\ variant = "dist"
    /\ phase = "new"
    /\ config \in IdenticalConfigs
    /\ cores = <<>>
    /\ memory = EmptyMemory
    /\ est = NoEst
    /\ ref = NoRef
    /\ out = NoOut
    /\ last_op = "none"
    /\ arg = NoArg
    /\ obs = NoObs

NextDistIdentical ==
    \/ ConstructDist
    \/ ResetDist
    \/ /\ variant = "dist" /\ phase = "ready"
       /\ \E sample \in IdenticalSamples(est.nodes) : StepDist(sample)

SpecDistIdentical == InitDistIdentical /\ [][NextDistIdentical]_vars

(* ---------------------- the weight table, on its own ------------------- *)

\* neighbour lists of up to three entries over three node names; a list may
\* repeat a name, name the node itself, or name a node that is not a key
NeighbourNames == {"a", "b", "c"}
NeighbourLists ==
    UNION { [1 .. n -> NeighbourNames] : n \in 0 .. 3 }

\* adjacency maps with the keys a, or a and b
AdjacencyMaps ==
    UNION { [keys -> NeighbourLists] : keys \in {{"a"}, {"a", "b"}} }

InitWeights ==
    /\ variant = "weights"
    /\ phase = "new"
    /\ config \in { [adjacency |-> adj] : adj \in AdjacencyMaps }
    /\ cores = <<>>
    /\ memory = EmptyMemory
    /\ est = NoEst
    /\ ref = NoRef
    /\ out = NoOut
    /\ last_op = "none"
    /\ arg = NoArg
    /\ obs = NoObs

\* W = metropolis_weights(adjacency)
CallMetropolisWeights ==
    /\ variant = "weights"
    /\ phase = "new"
    /\ phase' = "ready"
    /\ est' = [W |-> metropolis_weights(config.adjacency)]
    /\ last_op' = "call"
    /\ UNCHANGED <<variant, config, cores, memory, ref, out, arg, obs>>

NextWeights == CallMetropolisWeights

SpecWeights == InitWeights /\ [][NextWeights]_vars

(* ------------------- several estimators under one driver --------------- *)

\* the estimators whose reset() rebuilds the state themselves
NextResettable == NextCore \/ NextMulti \/ NextDist \/ NextIpDFT
SpecResettable ==
    (InitCore \/ InitMulti \/ InitDist \/ InitIpDFT) /\ [][NextResettable]_vars

\* the two estimators with a warm-up
NextWarmUp == NextCore \/ NextIpDFT
SpecWarmUp == (InitCore \/ InitIpDFT) /\ [][NextWarmUp]_vars

\* the two estimators whose constructor checks its configuration
NextChecked == NextIpDFT \/ NextDist
SpecChecked == (InitIpDFT \/ InitDist) /\ [][NextChecked]_vars

\* the zero-crossing variants configured with a mode / agg / fuse value
NextZCD == NextCore \/ NextMulti \/ NextDist
SpecZCD == (InitCore \/ InitMulti \/ InitDist) /\ [][NextZCD]_vars

\* the estimators that read one configured channel or a configured node list
NextReaders == NextSingle \/ NextIpDFT \/ NextDist
SpecReaders == (InitSingle \/ InitIpDFT \/ InitDist) /\ [][NextReaders]_vars

\* a driver that feeds snapshots with increasing timestamps to one of the
\* estimators with an update(measures) method and appends every returned
\* output to a list (test_ipdft_smoke: y = est.update(measures);
\* out.append(y)); obs holds the list and the timestamp last fed
NoRecords == [records |-> <<>>, last |-> None]

Recorded(o) == IF "records" \in DOMAIN o THEN o ELSE NoRecords

RecordConfigs ==
    [single |-> [channel |-> "V1", epsilon |-> R(0)],
     ipdft |-> [fs |-> R(4), frame_len |-> 3, channel |-> "V1"],
     multi |-> [channels |-> <<"V1", "V2">>, mode |-> "either", agg |-> "mean"]]

RecordSnapshots ==
    { [V1 |-> a, V2 |-> 0 - a, timestamp |-> R(t)] : a \in PhaseVals, t \in Times }

InitRecords ==
    /\ variant \in DOMAIN RecordConfigs
    /\ phase = "new"
    /\ config = RecordConfigs[variant]
    /\ cores = <<>>
    /\ memory = EmptyMemory
    /\ est = NoEst
    /\ ref = NoRef
    /\ out = NoOut
    /\ last_op = "none"
    /\ arg = NoArg
    /\ obs = NoObs

\* one pass of the loop body: the call, then the append when it returned
AppendRecord(snap) ==
    /\ IsNone(Recorded(obs).last) \/ RLt(Recorded(obs).last, snap.timestamp)
    /\ obs' = [records |-> IF out'.err = "none"
                           THEN Append(Recorded(obs).records, out')
                           ELSE Recorded(obs).records,
               last |-> snap.timestamp]

FeedSingleRecorded(snap) == SingleCall(snap) /\ UNCHANGED ref /\ AppendRecord(snap)
FeedIpDFTRecorded(snap) == IpDFTCall(snap) /\ AppendRecord(snap)
FeedMultiRecorded(snap) == MultiCall(snap) /\ AppendRecord(snap)

NextRecords ==
    \/ ConstructSingle
    \/ ResetSingle
    \/ \E snap \in RecordSnapshots : FeedSingleRecorded(snap)
    \/ ConstructIpDFT
    \/ \E snap \in RecordSnapshots : FeedIpDFTRecorded(snap)
    \/ ConstructMulti
    \/ ResetMulti
    \/ \E snap \in RecordSnapshots : FeedMultiRecorded(snap)

SpecRecords == InitRecords /\ [][NextRecords]_vars

\* the four estimators fed snapshots in which one value may be something
\* float() rejects
FaultyConfigs ==
    [single |-> [channel |-> "V1", epsilon |-> R(0)],
     ipdft |-> [fs |-> R(4), frame_len |-> 3, channel |-> "V1"],
     multi |-> [channels |-> <<"V1", "V2">>, mode |-> "either", agg |-> "mean"],
     dist |-> [nodes |-> <<"a", "b">>, adjacency |-> Line2, mode |-> "either"]]

FaultySnapshots ==
    { [V1 |-> a, V2 |-> b, timestamp |-> R(t), bad |-> B] :
      a \in PhaseVals, b \in PhaseVals, t \in Times,
      B \in {{}, {"V1"}, {"V2"}} }

FaultySamples ==
    { [timestamp |-> t, nodes |-> v, bad |-> B] :
      t \in StepTimes, v \in [{"a", "b"} -> NodeVals],
      B \in {{}, {"a"}, {"b"}} }

InitFaulty ==
    /\ variant \in DOMAIN FaultyConfigs
    /\ phase = "new"
    /\ config = FaultyConfigs[variant]
    /\ cores = <<>>
    /\ memory = EmptyMemory
    /\ est = NoEst
    /\ ref = NoRef
    /\ out = NoOut
    /\ last_op = "none"
    /\ arg = NoArg
    /\ obs = NoObs

NextFaulty ==
    \/ ConstructSingle
    \/ ResetSingle
    \/ \E snap \in FaultySnapshots : UpdateSingle(snap)
    \/ ConstructIpDFT
    \/ ResetIpDFT
    \/ \E snap \in FaultySnapshots : UpdateIpDFT(snap)
    \/ ConstructMulti
    \/ ResetMulti
    \/ \E snap \in FaultySnapshots : UpdateMulti(snap)
    \/ ConstructDist
    \/ ResetDist
    \/ \E sample \in FaultySamples : StepDist(sample)

SpecFaulty == InitFaulty /\ [][NextFaulty]_vars

\* the core and IpDFT, validly configured, fed samples whose timestamps
\* repeat and go back; one IpDFT has a six-sample frame, whose middle bin
\* is refined by the parabola
LongFrameConfig == [fs |-> R(6), frame_len |-> 6, channel |-> "V1"]

FrameSnapshotsAnyOrder ==
    { [V1 |-> a, timestamp |-> R(t)] : a \in FrameVals, t \in AnyTimes }

InitIpDFTDegenerate ==
    /\ variant = "ipdft"
    /\ phase = "new"
    /\ config \in {c \in IpDFTConfigs : IpDFTConfigError(c) = "none"}
                 \cup {LongFrameConfig}
    /\ cores = <<>>
    /\ memory = EmptyMemory
    /\ est = NoEst
    /\ ref = NoRef
    /\ out = NoOut
    /\ last_op = "none"
    /\ arg = NoArg
    /\ obs = NoObs

NextIpDFTAnyOrder ==
    \/ ConstructIpDFT
    \/ ResetIpDFT
    \/ \E snap \in FrameSnapshotsAnyOrder : IpDFTStep(snap)

NextDegenerate == NextCoreAnyOrder \/ NextIpDFTAnyOrder
SpecDegenerate ==
    (InitCoreObserved \/ InitIpDFTDegenerate) /\ [][NextDegenerate]_vars

(* --------------- the core and the single-phase estimator ---------------
   fed a periodic signal, as ZCDCoreTester.run_sine feeds a sine: sample k
   has the timestamp k / fs and the value wave[k mod P]                    *)

\* one period has 2 .. MaxWaveLen samples; samples 0 .. MaxSampleIndex are fed
MaxWaveLen == 4
MaxSampleIndex == 12

SampleRates == {1, 2}

\* the negative-to-positive crossings of one period of w: the places i whose
\* sample is negative and whose successor (cyclically) is not
WaveCrossings(w) ==
    { i \in 1 .. Len(w) : w[i] < 0 /\ w[(i % Len(w)) + 1] >= 0 }

Waves ==
    { w \in UNION { [1 .. n -> Vals] : n \in 2 .. MaxWaveLen } :
        Cardinality(WaveCrossings(w)) = 1 }

Signals == { [frame_len |-> 0, wave |-> w, fs |-> f] : w \in Waves, f \in SampleRates }

\* the period of the signal in seconds
SignalPeriod(sig) == Norm(Len(sig.wave), sig.fs)

\* the index of the sample to feed next
NextIndex ==
    IF IsNone(arg.timestamp) THEN 0
    ELSE (arg.timestamp[1] * est.fs) \div arg.timestamp[2] + 1

SampleValue(sig, k) == sig.wave[(k % Len(sig.wave)) + 1]

InitPeriodicCore ==
    /\ variant = "core"
    /\ phase = "new"
    /\ est \in Signals
    /\ config \in { c \in CoreConfigs :
                       /\ c.epsilon = RZero
                       /\ c.mode = "neg_to_pos"
                       /\ RLe(c.min_period_s, SignalPeriod(est))
                       /\ RLe(SignalPeriod(est), c.max_period_s) }
    /\ cores = <<>>
    /\ memory = EmptyMemory
    /\ ref = NoRef
    /\ out = NoOut
    /\ last_op = "none"
    /\ arg = NoArg
    /\ obs = NoObs

InitPeriodicSingle ==
    /\ variant = "single"
    /\ phase = "new"
    /\ est \in Signals
    /\ config = [channel |-> "V1", epsilon |-> RZero]
    /\ cores = <<>>
    /\ memory = EmptyMemory
    /\ ref = NoRef
    /\ out = NoOut
    /\ last_op = "none"
    /\ arg = NoArg
    /\ obs = NoObs

\* the loop body of run_sine
FeedCore ==
    /\ variant = "core"
    /\ phase = "ready"
    /\ NextIndex <= MaxSampleIndex
    /\ CoreStepAt(SampleValue(est, NextIndex), Norm(NextIndex, est.fs))
    /\ UNCHANGED obs

\* the same signal in PMU_Input snapshots
FeedSingle ==
    /\ variant = "single"
    /\ phase = "ready"
    /\ NextIndex <= MaxSampleIndex
    /\ UpdateSingle([V1 |-> SampleValue(est, NextIndex),
                     timestamp |-> Norm(NextIndex, est.fs)])

NextPeriodic ==
    \/ ConstructCore
    \/ ResetCore
    \/ FeedCore
    \/ ConstructSingle
    \/ FeedSingle

SpecPeriodic ==
    (InitPeriodicCore \/ InitPeriodicSingle) /\ [][NextPeriodic]_vars

(* ------------------------------ properties ----------------------------- *)

TheCore == cores["core"]

PeriodInBounds(cfg, period) ==
    RLe(cfg.min_period_s, period) /\ RLe(period, cfg.max_period_s)

\* the crossing the detector sees between the core's last sample and `a`
Detected(st, cfg, a) ==
    IF Present(st.prev_val) /\ Present(st.prev_ts)
    THEN detect_crossing(st.prev_val, st.prev_ts, R(a.value), a.timestamp,
                         cfg.epsilon, cfg.mode)
    ELSE NoDetect

\* C1: when update_scalar sees a crossing whose period, measured from the
\* recorded last_cross_ts, lies outside [min_period_s, max_period_s], the call
\* leaves last_freq, prev_freq, last_cross_ts and prev_cross_ts as they were,
\* returns the frequency the previous call returned, and returns crossed = true.
C1_RejectedPeriodKeepsState ==
    [][ ( /\ variant = "core" /\ phase = "ready" /\ last_op' = "update"
          /\ out'.err = "none"
          /\ Present(TheCore.last_cross_ts)
          /\ Detected(TheCore, config, arg').crossed
          /\ ~PeriodInBounds(config, RSub(Detected(TheCore, config, arg').t_cross,
                                          TheCore.last_cross_ts)) )
        => ( /\ cores'["core"].last_freq = TheCore.last_freq
             /\ cores'["core"].prev_freq = TheCore.prev_freq
             /\ cores'["core"].last_cross_ts = TheCore.last_cross_ts
             /\ cores'["core"].prev_cross_ts = TheCore.prev_cross_ts
             /\ out'.freq_hz = FreqOut(TheCore, config)
             /\ (last_op = "update" /\ out.err = "none"
                    => out'.freq_hz = out.freq_hz)
             /\ out'.crossed ) ]_vars

\* a call has just reported a crossing it did not record, with a frequency known
C1_Witness ==
    /\ variant = "core" /\ last_op = "update" /\ out.err = "none"
    /\ out.crossed
    /\ Present(TheCore.last_freq)
    /\ out.t_cross # TheCore.last_cross_ts
    /\ out.freq_hz = TheCore.last_freq

\* C2: with 0 < min_period_s <= max_period_s, after any sequence of calls:
\* last_cross_ts >= prev_cross_ts when both are present; prev_cross_ts is
\* present exactly when last_freq is; prev_freq present implies last_freq present.
C2_PairedUpdate ==
    (variant = "core" /\ phase = "ready" /\ ValidPeriods(config)) =>
        /\ (Present(TheCore.last_cross_ts) /\ Present(TheCore.prev_cross_ts)
               => RLe(TheCore.prev_cross_ts, TheCore.last_cross_ts))
        /\ (Present(TheCore.prev_cross_ts) <=> Present(TheCore.last_freq))
        /\ (Present(TheCore.prev_freq) => Present(TheCore.last_freq))
        /\ (Present(TheCore.last_freq) => Present(TheCore.last_cross_ts))

\* two periods were accepted
C2_Witness ==
    /\ variant = "core" /\ phase = "ready" /\ ValidPeriods(config)
    /\ Present(TheCore.prev_freq)
    /\ RLt(TheCore.prev_cross_ts, TheCore.last_cross_ts)

\* C3: the core never stalls: when the crossings it reports keep coming with a
\* spacing within [min_period_s, max_period_s] of one another, a period is
\* accepted; it never reports StallLimit such crossings in a row while accepting
\* none of them.
C3_NeverStalls == variant = "core" => obs.streak < StallLimit

\* the state a constructor leaves behind
Fresh ==
    CASE variant = "core" -> cores = [c \in {"core"} |-> ZCDState]
      [] variant = "multi" ->
            /\ est = MultiNew(config)
            /\ cores = [ch \in Range(MultiNew(config).channels) |-> ZCDState]
            /\ memory = EmptyMemory
      [] variant = "dist" ->
            /\ est = DistNew(config)
            /\ cores = [n \in Range(DistNew(config).nodes) |-> ZCDState]
      [] variant = "ipdft" -> est = IpDFTNew(config) /\ memory = EmptyMemory
      [] variant = "single" -> memory = SingleMemory

\* C4: for the core, the multi-phase aggregator, the distributed engine and
\* IpDFT, reset() leaves exactly the state the constructor left for the same
\* configuration; update / step being a function of that state and its input,
\* any input sequence then yields the outputs a fresh estimator yields.
C4_ResetRestoresFresh ==
    (variant \in {"core", "multi", "dist", "ipdft"}
     /\ last_op \in {"construct", "reset"} /\ phase = "ready") => Fresh

\* a reset of an estimator whose last call had returned an estimate other than
\* the nominal frequency
C4_Witness ==
    /\ last_op = "reset" /\ out.err = "none"
    /\ \/ variant = "core" /\ out.freq_hz # config.nominal_hz
       \/ variant \in {"multi", "ipdft"} /\ out.frequency_hz # R(60)
       \/ variant = "dist" /\ out.fused.mean_freq_hz # R(60)

\* C5: reset() of the single-phase estimator leaves the six fields present and
\* absent-valued, as the constructor did, and no update after it fails.
C5_SingleResetRestoresMemory ==
    variant = "single" =>
        /\ (last_op = "reset" => memory = SingleMemory)
        /\ out.err # "KeyError"

\* C6: on every update the single-phase estimator returns the frequency and
\* RoCoF that a core with the same configuration returns for the same channel
\* values and timestamps.
C6_SingleWrapsCore ==
    (variant = "single" /\ last_op = "update" /\ out.err = "none") =>
        /\ out.frequency_hz = ref.freq_hz
        /\ out.rocof_hz_s = ref.rocof_hz_s

\* C7: warm-up.  A core call made before the first accepted period, and each of
\* the first frame_len - 1 IpDFT updates after construction or reset, returns
\* the nominal frequency and zero RoCoF, and does not fail.
C7_WarmUpReportsNominal ==
    /\ (variant = "core" /\ last_op = "update" /\ IsNone(TheCore.last_freq))
          => /\ out.err = "none"
             /\ out.freq_hz = config.nominal_hz
             /\ out.rocof_hz_s = RZero
    /\ (variant = "ipdft" /\ last_op = "update" /\ ~est.filled)
          => /\ out.err = "none"
             /\ out.frequency_hz = est.nominal_hz
             /\ out.rocof_hz_s = RZero

\* C8: the IpDFT constructor raises exactly when fs is missing or <= 0 or
\* frame_len < 3, the distributed engine's exactly when the node list is missing
\* or empty; a constructed estimator has fs > 0 and frame_len >= 3, or a
\* non-empty node list.
C8_FailFastConstruction ==
    /\ (variant = "ipdft" /\ phase # "new") =>
          /\ phase = "raised" <=> \/ "fs" \notin DOMAIN config
                                  \/ RLe(config.fs, RZero)
                                  \/ config.frame_len < 3
          /\ phase = "ready" => RLt(RZero, est.fs) /\ est.frame_len >= 3
    /\ (variant = "dist" /\ phase # "new") =>
          /\ phase = "raised" <=> \/ "nodes" \notin DOMAIN config
                                  \/ config.nodes = <<>>
          /\ phase = "ready" => est.nodes # <<>> /\ DOMAIN cores # {}

\* the constructor raised for the frame length alone
C8_Witness ==
    /\ variant = "ipdft" /\ phase = "raised" /\ last_op = "construct"
    /\ "fs" \in DOMAIN config /\ RLt(RZero, config.fs)
    /\ config.frame_len = 2

\* what the constructors would have to accept only
ValidSettings ==
    /\ Get(config, "mode", DefaultMode) \in CrossingModes
    /\ Get(config, "agg", "median") \in {"median", "mean"}
    /\ Get(config, "fuse", "consensus") \in {"consensus", "mean", "none"}
    /\ RLt(RZero, Get(config, "consensus_alpha", R(1)))
    /\ RLe(Get(config, "consensus_alpha", R(1)), R(1))
    /\ RLt(RZero, Get(config, "min_period_s", DefaultMinPeriod))
    /\ RLe(Get(config, "min_period_s", DefaultMinPeriod),
           Get(config, "max_period_s", DefaultMaxPeriod))

\* C9: a zero-crossing variant is only ever constructed with a valid crossing
\* mode, aggregation, fuse value, consensus_alpha and period bounds; any other
\* configuration makes the constructor raise.
C9_ConfigValidatedAtConstruction ==
    (variant \in {"core", "multi", "dist"} /\ phase = "ready") => ValidSettings

\* the channel or the nodes the last call's snapshot had to carry and did not
Missing ==
    CASE variant = "single" -> {Get(config, "channel", "V1")} \ DOMAIN arg
      [] variant = "ipdft" -> {est.channel} \ DOMAIN arg
      [] variant = "dist" -> Range(est.nodes) \ DOMAIN arg.nodes
      [] OTHER -> {}

\* C10: an update / step call whose snapshot lacks the configured channel, or
\* a configured node, raises; it returns no result.
C10_MissingInputRaises ==
    (variant \in {"single", "ipdft", "dist"} /\ last_op = "update"
     /\ Missing # {}) => out.err \notin {"none", "nocall"}

\* C11: with a valid configuration, no update call of the zero-crossing core
\* or of IpDFT divides by zero or raises, whatever the order of the
\* timestamps, the sample values and the spectrum of the frame.
C11_DegeneraciesAbsorbed ==
    (variant \in {"core", "ipdft"} /\ last_op = "update") => out.err = "none"

\* a crossing interpolated to a time before the last accepted crossing: its
\* period is negative
C11_Witness ==
    /\ variant = "core"
    /\ last_op = "update"
    /\ out.err = "none"
    /\ out.crossed
    /\ Present(TheCore.last_cross_ts)
    /\ RLt(out.t_cross, TheCore.last_cross_ts)

\* the degree the weight rule speaks of: max(1, number of neighbours)
NeighbourCount(adj, x) == IF x \in DOMAIN adj THEN Len(adj[x]) ELSE 0
Degree(adj, x) == Max(1, NeighbourCount(adj, x))

\* the sum of W[(i, j)] over the first n entries j of the neighbour list of i
RECURSIVE NeighbourWeights(_, _, _, _)
NeighbourWeights(W, adj, i, n) ==
    IF n = 0 THEN RZero
    ELSE RAdd(W[<<i, adj[i][n]>>], NeighbourWeights(W, adj, i, n - 1))

Clamped(x) == IF RLt(x, RZero) THEN RZero ELSE x

\* C12: in the table metropolis_weights returns, W[(i, j)] is
\* 1 / (1 + max(deg(i), deg(j))) for each neighbour j of i, W[(i, i)] is one
\* minus the sum of the neighbour weights (not below 0), and each row, self
\* weight plus neighbour weights, sums to 1.
C12_WeightRowsSumToOne ==
    (variant = "weights" /\ phase = "ready") =>
        LET adj == config.adjacency
            W == est.W
        IN  \A i \in DOMAIN adj :
               /\ \A k \in 1 .. Len(adj[i]) :
                      W[<<i, adj[i][k]>>]
                          = <<1, 1 + Max(Degree(adj, i), Degree(adj, adj[i][k]))>>
               /\ W[<<i, i>>]
                      = Clamped(RSub(R(1), NeighbourWeights(W, adj, i, Len(adj[i]))))
               /\ RAdd(W[<<i, i>>], NeighbourWeights(W, adj, i, Len(adj[i])))
                      = R(1)

\* a step of the distributed engine returned, with fuse = consensus and
\* consensus_alpha in (0, 1]
ConsensusStepped ==
    /\ variant = "dist"
    /\ phase = "ready"
    /\ last_op = "update"
    /\ out.err = "none"
    /\ est.fuse_mode = "consensus"
    /\ RLt(RZero, est.alpha)
    /\ RLe(est.alpha, R(1))

\* the nodes without neighbours
Isolated == { n \in Range(est.nodes) : est.adj[n] = <<>> }

\* C13: with fuse = consensus, a node that has no neighbours gets its own
\* local frequency as its consensus value in every step, for every
\* adjacency and every consensus_alpha in (0, 1].
C13_IsolatedNodeKeepsLocal ==
    ConsensusStepped =>
        \A n \in Isolated :
            out.fused.consensus_freq_hz[n] = out.local[n].freq_hz

\* C14: when every node is fed the same values from construction or reset
\* on, each node's consensus value equals its local frequency and the plain
\* mean in every step, for every adjacency and consensus_alpha in (0, 1].
C14_IdenticalInputAgreement ==
    ConsensusStepped =>
        \A n \in Range(est.nodes) :
            /\ out.fused.consensus_freq_hz[n] = out.local[n].freq_hz
            /\ out.local[n].freq_hz = out.fused.mean_freq_hz

\* the arithmetic mean of the values of f
RECURSIVE SumOver(_, _)
SumOver(f, S) ==
    IF S = {} THEN RZero
    ELSE LET x == CHOOSE y \in S : TRUE
         IN  RAdd(f[x], SumOver(f, S \ {x}))

PlainMean(f) == RDiv(SumOver(f, DOMAIN f), R(Cardinality(DOMAIN f)))

\* what one update_scalar call on node n's core with the snapshot's value and
\* timestamp gives
NodeCall(n, sample) ==
    update_scalar(cores[n], est.core_cfg,
                  R(IF n \in DOMAIN sample.nodes THEN sample.nodes[n] ELSE 0),
                  sample.timestamp)

\* a completed step advanced every core once with the step's timestamp and
\* fused the local values that these calls returned
StepIsBarrier ==
    (variant = "dist" /\ last_op' = "update" /\ out'.err = "none") =>
        /\ \A n \in DOMAIN cores : \E res \in {NodeCall(n, arg')} :
               /\ cores'[n] = res.st
               /\ cores'[n].prev_ts = arg'.timestamp
               /\ out'.local[n].freq_hz = res.freq_hz
               /\ out'.local[n].rocof_hz_s = res.rocof_hz_s
        /\ out'.timestamp = arg'.timestamp
        /\ out'.fused.mean_freq_hz
               = PlainMean([n \in DOMAIN cores |-> out'.local[n].freq_hz])
        /\ out'.fused.mean_rocof_hz_s
               = PlainMean([n \in DOMAIN cores |-> out'.local[n].rocof_hz_s])
        /\ est.fuse_mode = "consensus" =>
               out'.fused.consensus_freq_hz
                   = fuse_consensus(est, Dedup(est.nodes),
                                    [n \in DOMAIN cores |-> out'.local[n].freq_hz])

\* C15: within one step every node's core is advanced exactly once with the
\* step's timestamp before anything is fused: after a completed step all
\* cores hold the step's timestamp as prev_ts, and the mean and consensus
\* values are computed from the local values of that step only.
C15_LockStepBarrier == [][StepIsBarrier]_vars

\* a completed step after which the nodes' local frequencies differ and all
\* cores stand at the step's timestamp
C15_Witness ==
    /\ variant = "dist"
    /\ last_op = "update"
    /\ out.err = "none"
    /\ \A n \in DOMAIN cores : cores[n].prev_ts = out.timestamp
    /\ \E n, m \in DOMAIN cores : out.local[n].freq_hz # out.local[m].freq_hz

\* C16: the fuse mode selects what a step reports: with fuse = none no fused
\* mean and no consensus value, with fuse = mean the plain mean only, and the
\* per-node consensus map exactly when fuse = consensus.
C16_FuseModeSelectsReport ==
    (variant = "dist" /\ last_op = "update" /\ out.err = "none") =>
        /\ est.fuse_mode = "none" => DOMAIN out.fused = {}
        /\ est.fuse_mode = "mean" =>
               DOMAIN out.fused = {"mean_freq_hz", "mean_rocof_hz_s"}
        /\ "consensus_freq_hz" \in DOMAIN out.fused
               <=> est.fuse_mode = "consensus"

LocalFreqs == [n \in DOMAIN out.local |-> out.local[n].freq_hz]
LocalRocofs == [n \in DOMAIN out.local |-> out.local[n].rocof_hz_s]

\* C17: in every step and fuse mode the fused RoCoF (mean_rocof_hz_s and
\* last_fused_rocof) is the plain mean of the local RoCoFs; last_fused_freq
\* is the average of the consensus values with fuse = consensus and the
\* plain mean of the local frequencies otherwise.
C17_RocofFusedByPlainMean ==
    (variant = "dist" /\ last_op = "update" /\ out.err = "none") =>
        /\ out.fused.mean_rocof_hz_s = PlainMean(LocalRocofs)
        /\ est.last_fused_rocof = PlainMean(LocalRocofs)
        /\ est.last_fused_freq
               = IF est.fuse_mode = "consensus"
                 THEN PlainMean(out.fused.consensus_freq_hz)
                 ELSE PlainMean(LocalFreqs)

\* a consensus step in which the graph-weighted average of the local RoCoFs
\* is not their plain mean, and the average of the consensus frequencies is
\* not the plain mean of the local ones
C17_Witness ==
    /\ variant = "dist"
    /\ last_op = "update"
    /\ out.err = "none"
    /\ est.fuse_mode = "consensus"
    /\ PlainMean(fuse_consensus(est, Dedup(est.nodes), LocalRocofs))
           # PlainMean(LocalRocofs)
    /\ est.last_fused_freq # out.fused.mean_freq_hz

\* C18: after n update calls since construction or reset the write cursor of
\* IpDFT is n mod frame_len, the frame is marked filled exactly when
\* n >= frame_len, and a filled buffer holds the most recent frame_len samples
\* (the sample of k calls ago sits k places behind the cursor).
C18_FrameAccumulator ==
    (variant = "ipdft" /\ phase = "ready") =>
        LET n == Counted(obs).calls
            recent == Counted(obs).recent
            len == est.frame_len
        IN  /\ est.ptr = n % len
            /\ est.ptr \in 0 .. len - 1
            /\ est.filled <=> n >= len
            /\ est.filled =>
                   \A k \in 1 .. len :
                       est.buffer[((est.ptr + len - k) % len) + 1]
                           = recent[len + 1 - k]

\* the window has slid past the first full frame
C18_Witness ==
    /\ variant = "ipdft"
    /\ phase = "ready"
    /\ last_op = "update"
    /\ est.filled
    /\ Counted(obs).calls > est.frame_len
    /\ est.ptr # 0
    /\ \E i, j \in 1 .. est.frame_len : est.buffer[i] # est.buffer[j]

\* C19: the RoCoF an IpDFT update returns is the difference between its
\* frequency estimate and the one of the previous update, divided by the
\* time between them, and 0 when there is no previous update or no time has
\* passed; on the update at which the frame first becomes full it is 0.
C19_RocofIsFiniteDifference ==
    (variant = "ipdft" /\ last_op = "update" /\ out.err = "none") =>
        LET o == Counted(obs)
        IN  /\ out.rocof_hz_s
                   = IF Present(o.prev_freq) /\ RLt(o.prev_ts, out.timestamp_utc)
                     THEN RDiv(RSub(out.frequency_hz, o.prev_freq),
                               RSub(out.timestamp_utc, o.prev_ts))
                     ELSE RZero
            /\ o.calls = est.frame_len => out.rocof_hz_s = RZero

\* the number of negative-to-positive crossings of the signal among the
\* samples 0 .. k
RECURSIVE CrossingsUpTo(_, _)
CrossingsUpTo(sig, k) ==
    IF k <= 0 THEN 0
    ELSE CrossingsUpTo(sig, k - 1)
         + (IF SampleValue(sig, k - 1) < 0 /\ SampleValue(sig, k) >= 0
            THEN 1 ELSE 0)

CrossingsFed == CrossingsUpTo(est, NextIndex - 1)

FrequencyReported == IF variant = "core" THEN out.freq_hz ELSE out.frequency_hz

\* C20: fed a signal that repeats every P samples at spacing 1 / fs, with one
\* negative-to-positive crossing per period and P / fs within the period
\* bounds, the zero-crossing estimator (epsilon = 0, neg_to_pos) reports the
\* frequency fs / P from the second crossing on and the RoCoF 0 from the
\* third crossing on.
C20_ExactRecoveryOnPeriodicInput ==
    (variant \in {"core", "single"} /\ last_op = "update") =>
        /\ out.err = "none"
        /\ CrossingsFed >= 2 =>
               FrequencyReported = RDiv(R(1), SignalPeriod(est))
        /\ CrossingsFed >= 3 => out.rocof_hz_s = RZero

\* the third crossing of a signal has been fed to the single-phase
\* estimator, and it fell between two samples
C20_Witness ==
    /\ variant = "single"
    /\ last_op = "update"
    /\ CrossingsFed >= 3
    /\ out.frequency_hz = RDiv(R(1), SignalPeriod(est))
    /\ out.frequency_hz # R(60)
    /\ RMul(memory.last_cross_ts, R(est.fs))[2] # 1

\* the sign the crossing rule gives a sample: +1 above epsilon, -1 below
\* -epsilon, 0 in between
SampleSign(x, eps) ==
    IF RLt(eps, x) THEN 1 ELSE IF RLt(x, RNeg(eps)) THEN 0 - 1 ELSE 0

\* the crossing the rule asks for between two consecutive samples
CrossingExpected(prev, curr, eps, mode) ==
    LET s0 == SampleSign(prev, eps)
        s1 == SampleSign(curr, eps)
    IN  CASE mode = "neg_to_pos" -> s0 = 0 - 1 /\ s1 >= 0
          [] mode = "pos_to_neg" -> s0 = 1 /\ s1 <= 0
          [] mode = "either" -> s0 # 0 /\ s1 # 0 /\ s0 # s1

CrossingDecided ==
    (variant = "core" /\ last_op' = "update" /\ out'.err = "none"
     /\ Present(TheCore.prev_val) /\ Present(TheCore.prev_ts)) =>
        /\ out'.crossed
               <=> CrossingExpected(TheCore.prev_val, R(arg'.value),
                                    config.epsilon, config.mode)
        /\ ~out'.crossed => IsNone(out'.t_cross)

\* C21: between two consecutive samples a crossing is reported in neg_to_pos
\* mode exactly when the signs are -1 then >= 0, in pos_to_neg mode exactly
\* when they are +1 then <= 0, in either mode exactly when both are nonzero
\* and different (signs taken with the deadband epsilon); when none is
\* reported t_cross is absent.
C21_CrossingDecision == [][CrossingDecided]_vars

\* a crossing reported in either mode with a deadband of 1
C21_Witness ==
    /\ variant = "core"
    /\ last_op = "update"
    /\ out.err = "none"
    /\ out.crossed
    /\ config.mode = "either"
    /\ config.epsilon = R(1)

\* the k-th smallest (k = 1 ..) of the values of f
KthSmallest(f, k) ==
    CHOOSE v \in {f[c] : c \in DOMAIN f} :
        /\ Cardinality({c \in DOMAIN f : RLt(f[c], v)}) < k
        /\ k <= Cardinality({c \in DOMAIN f : RLe(f[c], v)})

\* the median of the values of f: the middle one, or the average of the two
\* middle ones
MedianOf(f) ==
    LET n == Cardinality(DOMAIN f)
    IN  IF n % 2 = 1 THEN KthSmallest(f, (n + 1) \div 2)
        ELSE RDiv(RAdd(KthSmallest(f, n \div 2), KthSmallest(f, n \div 2 + 1)),
                  R(2))

Aggregated(f, mode) == IF mode = "mean" THEN PlainMean(f) ELSE MedianOf(f)

\* what one update_scalar call on the channel's core with the snapshot's
\* value and timestamp gives
ChannelCall(ch, snap) ==
    update_scalar(cores[ch], est.core_cfg, R(snap[ch]), snap.timestamp)

MultiStepAggregates ==
    (variant = "multi" /\ last_op' = "update" /\ out'.err = "none"
     /\ est.agg_mode \in {"median", "mean"}) =>
        \E res \in {[ch \in DOMAIN cores |-> ChannelCall(ch, arg')]} :
            /\ \A ch \in DOMAIN cores : cores'[ch] = res[ch].st
            /\ out'.frequency_hz
                   = Aggregated([ch \in DOMAIN cores |-> res[ch].freq_hz],
                                est.agg_mode)
            /\ out'.rocof_hz_s
                   = Aggregated([ch \in DOMAIN cores |-> res[ch].rocof_hz_s],
                                est.agg_mode)

\* C22: on every update of the multi-phase aggregator each channel's core is
\* advanced exactly once with that channel's value and the snapshot
\* timestamp, and the returned frequency and RoCoF are the configured
\* aggregation (arithmetic mean, or median with the two middle elements
\* averaged for an even count) of the per-channel frequencies and of the
\* per-channel RoCoFs.
C22_MultiPhaseAggregation == [][MultiStepAggregates]_vars

\* a median over three channels that is not their mean
C22_Witness ==
    /\ variant = "multi"
    /\ last_op = "update"
    /\ est.agg_mode = "median"
    /\ Cardinality(DOMAIN cores) = 3
    /\ out.frequency_hz
           # PlainMean([ch \in DOMAIN cores |-> FreqOut(cores[ch], est.core_cfg)])

\* what the driver's list gains in one step
OneRecordPerSnapshot ==
    (variant \in {"single", "ipdft", "multi"} /\ last_op' = "update") =>
        LET before == Recorded(obs).records
            after == Recorded(obs').records
        IN  IF out'.err = "none"
            THEN /\ Len(after) = Len(before) + 1
                 /\ SubSeq(after, 1, Len(before)) = before
                 /\ after[Len(after)] = out'
                 /\ out'.timestamp_utc = arg'.timestamp
                 /\ Present(out'.frequency_hz)
            ELSE after = before

\* C23: every update call that returns, on the single-phase, the IpDFT and
\* the multi-phase estimator and in any state (warm-up included), returns
\* one output record whose timestamp_utc is the timestamp of the snapshot
\* just fed; the list of records returned so far grows by exactly that
\* record and its earlier entries stay as they were.
C23_OneRecordPerSnapshot == [][OneRecordPerSnapshot]_vars

\* the IpDFT before its frame is filled, with a second record returned
C23_Witness ==
    /\ variant = "ipdft"
    /\ last_op = "update"
    /\ out.err = "none"
    /\ ~est.filled
    /\ Len(Recorded(obs).records) = 2
    /\ out.timestamp_utc = arg.timestamp
    /\ out.timestamp_utc # RZero

\* the nodes without neighbours and without any entry in the weight table
Unwired ==
    { n \in Range(est.nodes) :
        /\ est.adj[n] = <<>>
        /\ \A k \in DOMAIN est.W : k[1] # n /\ k[2] # n }

\* C24: with fuse = consensus, a node that has no neighbours and no entry in
\* the weight table gets as its consensus value the plain mean of all
\* nodes' local frequencies of that step.
C24_NoGraphFallsBackToMean ==
    (variant = "dist" /\ phase = "ready" /\ last_op = "update"
     /\ out.err = "none" /\ est.fuse_mode = "consensus") =>
        \A n \in Unwired :
            out.fused.consensus_freq_hz[n] = PlainMean(LocalFreqs)

\* a step without a graph whose mean is no node's own local frequency
C24_Witness ==
    /\ variant = "dist"
    /\ phase = "ready"
    /\ last_op = "update"
    /\ out.err = "none"
    /\ est.fuse_mode = "consensus"
    /\ Unwired = Range(est.nodes)
    /\ \A n \in Unwired :
           /\ out.fused.consensus_freq_hz[n] = PlainMean(LocalFreqs)
           /\ out.local[n].freq_hz # PlainMean(LocalFreqs)

\* the sum of W[(i, j)] * local[j] over the first n entries j of the
\* neighbour list of i
RECURSIVE WeightedNeighbours(_, _, _, _, _)
WeightedNeighbours(W, adj, local, i, n) ==
    IF n = 0 THEN RZero
    ELSE RAdd(RMul(W[<<i, adj[i][n]>>], local[adj[i][n]]),
              WeightedNeighbours(W, adj, local, i, n - 1))

\* the blend of node i from the table W and the local frequencies
Blend(W, adj, alpha, local, i) ==
    RAdd(RMul(RSub(R(1), alpha), local[i]),
         RMul(alpha, RAdd(RMul(W[<<i, i>>], local[i]),
                          WeightedNeighbours(W, adj, local, i, Len(adj[i])))))

\* steps and resets keep the weight table, and a consensus step with a
\* table blends with it
BlendsWithConstructionTable ==
    (variant = "dist" /\ phase = "ready" /\ last_op' \in {"update", "reset"}) =>
        /\ est'.W = est.W
        /\ est'.adj = est.adj
        /\ est'.alpha = est.alpha
        /\ (last_op' = "update" /\ out'.err = "none"
            /\ est.fuse_mode = "consensus" /\ DOMAIN est.W # {}) =>
               \A i \in Range(est.nodes) :
                   out'.fused.consensus_freq_hz[i]
                       = Blend(est.W, est.adj, est.alpha,
                               [n \in DOMAIN out'.local |-> out'.local[n].freq_hz], i)

\* C25: with fuse = consensus and a non-empty weight table, the consensus
\* value of node i in a step is (1 - alpha) * local_i + alpha * (w_ii *
\* local_i + sum over the neighbours j of i of w_ij * local_j), with the
\* local frequencies of the same step and the weight table of construction,
\* which no step and no reset changes.
C25_OneStepConsensusBlend == [][BlendsWithConstructionTable]_vars

\* a blend with alpha = 1/2 that is neither the local value nor the mean
C25_Witness ==
    /\ variant = "dist"
    /\ phase = "ready"
    /\ last_op = "update"
    /\ out.err = "none"
    /\ est.fuse_mode = "consensus"
    /\ est.alpha = <<1, 2>>
    /\ DOMAIN est.W # {}
    /\ out.fused.consensus_freq_hz["a"] = Blend(est.W, est.adj, est.alpha, LocalFreqs, "a")
    /\ out.fused.consensus_freq_hz["a"] # out.local["a"].freq_hz
    /\ out.fused.consensus_freq_hz["a"] # out.fused.mean_freq_hz

\* the call accepted a crossing: it wrote a new last_freq
AcceptedCrossing ==
    /\ out'.crossed
    /\ Present(TheCore.last_cross_ts)
    /\ cores'["core"].last_cross_ts = out'.t_cross
    /\ cores'["core"].prev_cross_ts = TheCore.last_cross_ts

\* what a returning update_scalar hands back, read off the state it leaves
CoreOutputRule ==
    (variant = "core" /\ last_op' = "update" /\ out'.err = "none") =>
        LET st == cores'["core"]
            timed == /\ Present(st.last_freq) /\ Present(st.prev_freq)
                     /\ Present(st.last_cross_ts) /\ Present(st.prev_cross_ts)
        IN  /\ out'.freq_hz = IF Present(st.last_freq) THEN st.last_freq
                              ELSE config.nominal_hz
            /\ out'.rocof_hz_s
                   = IF timed /\ RLt(st.prev_cross_ts, st.last_cross_ts)
                     THEN RDiv(RSub(st.last_freq, st.prev_freq),
                               RSub(st.last_cross_ts, st.prev_cross_ts))
                     ELSE RZero
            /\ (~AcceptedCrossing /\ last_op = "update" /\ out.err = "none") =>
                   /\ out'.freq_hz = out.freq_hz
                   /\ out'.rocof_hz_s = out.rocof_hz_s

\* C26: every update_scalar call that returns gives freq_hz = last_freq when
\* it is present and nominal_hz otherwise, and rocof_hz_s = (last_freq -
\* prev_freq) / (last_cross_ts - prev_cross_ts) when the four are present
\* and the difference of the crossing times is positive, 0 otherwise; a call
\* that accepts no crossing returns the values the call before returned.
C26_CoreOutputRule == [][CoreOutputRule]_vars

\* a call without a crossing that repeats a non-zero RoCoF
C26_Witness ==
    /\ variant = "core"
    /\ last_op = "update"
    /\ out.err = "none"
    /\ ~out.crossed
    /\ out.freq_hz = TheCore.last_freq
    /\ out.freq_hz # config.nominal_hz
    /\ out.rocof_hz_s # RZero

\* the four crossing fields of a core state
CrossingFields(st) ==
    <<st.prev_freq, st.last_freq, st.prev_cross_ts, st.last_cross_ts>>

\* what a returning update_scalar call writes into the state
CrossingBookkeeping ==
    (variant = "core" /\ last_op' = "update" /\ out'.err = "none") =>
        LET old == TheCore
            new == cores'["core"]
            period == RSub(out'.t_cross, old.last_cross_ts)
        IN  /\ new.prev_val = R(arg'.value)
            /\ new.prev_ts = arg'.timestamp
            /\ CrossingFields(new)
                   = IF ~out'.crossed THEN CrossingFields(old)
                     ELSE IF IsNone(old.last_cross_ts)
                     THEN <<old.prev_freq, old.last_freq, old.prev_cross_ts,
                            out'.t_cross>>
                     ELSE IF RLe(config.min_period_s, period)
                             /\ RLe(period, config.max_period_s)
                     THEN <<old.last_freq, RDiv(R(1), period),
                            old.last_cross_ts, out'.t_cross>>
                     ELSE CrossingFields(old)
            /\ (out'.crossed /\ IsNone(old.last_cross_ts)) => IsNone(new.last_freq)

RAbs(x) == IF RLt(x, RZero) THEN RNeg(x) ELSE x

\* the peak bin of the frame the estimator holds, and the offset the
\* parabola through the magnitudes around it gives
PeakBin == ArgMax(est.buffer, est.frame_len \div 2)

PeakOffset ==
    LET half == est.frame_len \div 2
        k == PeakBin
    IN  IF 0 < k /\ k < half - 1
        THEN LET lo == Mag(est.buffer, k - 1)
                 mid == Mag(est.buffer, k)
                 hi == Mag(est.buffer, k + 1)
                 denom == RAdd(RSub(lo, RMul(R(2), mid)), hi)
             IN  IF denom = RZero THEN RZero
                 ELSE RDiv(RMul(<<1, 2>>, RSub(lo, hi)), denom)
        ELSE RZero

\* an update of IpDFT returned an estimate taken from a full frame
FrameEstimated ==
    /\ variant = "ipdft"
    /\ phase = "ready"
    /\ last_op = "update"
    /\ out.err = "none"
    /\ est.filled

\* C28: the estimate IpDFT returns from a full frame is (k + delta) * fs /
\* frame_len, where k is the first largest of the bins 0 .. frame_len \div 2
\* - 1 and delta is 0.5 * (mag[k-1] - mag[k+1]) / (mag[k-1] - 2 * mag[k] +
\* mag[k+1]) for an interior k with a non-zero denominator and 0 otherwise;
\* |delta| <= 1/2, and the estimate lies within half a bin of bin k and in
\* [0, fs / 2).
C28_ParabolicRefinement ==
    FrameEstimated =>
        LET bin == RDiv(est.fs, R(est.frame_len))
        IN  /\ out.frequency_hz = RMul(RAdd(R(PeakBin), PeakOffset), bin)
            /\ RLe(RAbs(PeakOffset), <<1, 2>>)
            /\ RLe(RAbs(RSub(out.frequency_hz, RMul(R(PeakBin), bin))),
                   RMul(<<1, 2>>, bin))
            /\ RLe(RZero, out.frequency_hz)
            /\ RLt(out.frequency_hz, RMul(<<1, 2>>, est.fs))

\* a six-sample frame whose peak is the middle bin, moved off the bin
C28_Witness ==
    /\ FrameEstimated
    /\ est.frame_len = 6
    /\ PeakBin = 1
    /\ PeakOffset # RZero
    /\ out.frequency_hz = RMul(RAdd(R(1), PeakOffset), RDiv(est.fs, R(6)))

\* a reported crossing between a sample and a later or simultaneous one is
\* timed between the two
CrossingTimedInside ==
    (variant = "core" /\ last_op' = "update" /\ out'.err = "none"
     /\ out'.crossed /\ Present(TheCore.prev_ts)
     /\ RLe(TheCore.prev_ts, arg'.timestamp)) =>
        /\ RLe(TheCore.prev_ts, out'.t_cross)
        /\ RLe(out'.t_cross, arg'.timestamp)

\* C29: for every mode and every epsilon >= 0, a crossing that
\* detect_crossing reports between (prev_val, prev_ts) and (curr_val,
\* curr_ts) with prev_ts <= curr_ts has prev_ts <= t_cross <= curr_ts.
C29_CrossingTimeInsideInterval == [][CrossingTimedInside]_vars

\* f is positive and its period 1 / f lies in [min_period_s, max_period_s]
InBand(f) ==
    /\ RLt(RZero, f)
    /\ RLe(R(1), RMul(f, config.max_period_s))
    /\ RLe(RMul(f, config.min_period_s), R(1))

\* C30: whenever the core holds a last_freq, it is 1 / (last_cross_ts -
\* prev_cross_ts), positive and within [1 / max_period_s, 1 /
\* min_period_s]; prev_freq, when present, is within the same bounds, and
\* so is every frequency reported that is not nominal_hz.
C30_FrequencyWithinPeriodBounds ==
    (variant = "core" /\ phase = "ready") =>
        /\ Present(TheCore.last_freq) =>
               /\ Present(TheCore.last_cross_ts)
               /\ Present(TheCore.prev_cross_ts)
               /\ RMul(TheCore.last_freq,
                       RSub(TheCore.last_cross_ts, TheCore.prev_cross_ts)) = R(1)
               /\ InBand(TheCore.last_freq)
        /\ Present(TheCore.prev_freq) => InBand(TheCore.prev_freq)
        /\ (last_op = "update" /\ out.err = "none"
            /\ out.freq_hz # config.nominal_hz) => InBand(out.freq_hz)

\* the adjacency is undirected: every neighbour is a configured node other
\* than the node itself, is listed once, and lists the node back; and there
\* is an edge
Undirected(adj) ==
    /\ \A i \in DOMAIN adj :
           /\ \A k \in 1 .. Len(adj[i]) :
                  /\ adj[i][k] \in DOMAIN adj
                  /\ adj[i][k] # i
                  /\ i \in Range(adj[adj[i][k]])
           /\ \A k, l \in 1 .. Len(adj[i]) : adj[i][k] = adj[i][l] => k = l
    /\ \E i \in DOMAIN adj : adj[i] # <<>>

\* C31: with fuse = consensus, an undirected adjacency with at least one
\* edge and consensus_alpha in (0, 1], the average of the nodes' consensus
\* values equals the plain mean of the local frequencies in every step:
\* last_fused_freq equals mean_freq_hz.
C31_ConsensusPreservesAverage ==
    (ConsensusStepped /\ Undirected(est.adj)) =>
        /\ PlainMean(out.fused.consensus_freq_hz) = PlainMean(LocalFreqs)
        /\ est.last_fused_freq = out.fused.mean_freq_hz

\* a step on the path of three nodes that moves every node off its local
\* frequency, the local frequencies not being all the same
C31_Witness ==
    /\ ConsensusStepped
    /\ Undirected(est.adj)
    /\ Cardinality(DOMAIN cores) = 3
    /\ est.alpha = <<1, 2>>
    /\ est.last_fused_freq = PlainMean(LocalFreqs)
    /\ \A n \in DOMAIN cores :
           out.fused.consensus_freq_hz[n] # out.local[n].freq_hz
    /\ out.local["a"].freq_hz # out.local["c"].freq_hz

\* a call that raised left the estimator as it was
FailedCallKeepsState ==
    (variant \in {"single", "ipdft", "multi", "dist"}
     /\ last_op' = "update" /\ out'.err # "none") =>
        /\ cores' = cores
        /\ memory' = memory
        /\ est' = est

\* C32: when an update call of the single-phase, multi-phase or IpDFT
\* estimator or a step call of the distributed engine raises, the
\* estimator's state after the call is its state before the call: no
\* per-channel or per-node core was advanced.
C32_UpdatesAtomicOnError == [][FailedCallKeepsState]_vars

====
